---- MODULE Spec2Model ----
(***************************************************************************)
(* The live conversation pipeline of apps/desktop: CopilotPipeline         *)
(* (brain/pipeline.rs) with the tasks it spawns, the Deepgram STT client   *)
(* tasks (capture/deepgram.rs), the Deep stream producer task              *)
(* (deep/claude.rs, deep/gpt4o.rs), the transcript buffer                  *)
(* (capture/transcript.rs) and the context store (brain/context.rs).       *)
(*                                                                         *)
(* One session is created by each start() call that returns Ok; sessions   *)
(* are numbered in the order of these calls.  Every await point of a task  *)
(* is a position of the task; the code between two await points is one     *)
(* action.                                                                 *)
(*                                                                         *)
(* Spec and FairSpec are the pipeline; FaultSpec adds the faults of its    *)
(* inputs.  BufSpec, CtxSpec, BusFairSpec and RouterSpec are a             *)
(* TranscriptBuffer, a ConversationContext, the event bus with the         *)
(* runtime's listener (ui/runtime.rs) and the hybrid router                *)
(* (brain/hybrid_router.rs), each under every sequence of calls; in each   *)
(* of them the other objects stay as they were created.  In the same way   *)
(* FlashSpec is the Flash step of the transcript task, StreamSpec one Deep *)
(* stream and its reader, CxSpec Complexity::from_text, PcmSpec            *)
(* f32_to_pcm_bytes (capture/audio.rs), TokSeqSpec and TokSpec the refresh *)
(* tokens of apps/api (auth/tokens.rs, routes/auth.rs) with requests       *)
(* served in turn and concurrently, and LifeSpec the start()/stop()        *)
(* lifecycle of a pipeline together with its context store.                *)
(***************************************************************************)
EXTENDS Integers, Sequences, FiniteSets, TLC

\* Bounds of the model.
MaxSessions == 1    \* successful start() calls (sessions) in one behaviour
MaxStops == 2       \* stop() calls in one behaviour
MaxSegs == 2        \* websocket messages delivered by the STT server, all sessions
MaxChunks == 1      \* Content chunks of one Deep stream
MaxBufBound == 2    \* largest max_segments of a TranscriptBuffer
MaxAdds == 4        \* add() calls on one TranscriptBuffer
MaxCtxBound == 2    \* largest max_turns of a ConversationContext
MaxCtxCalls == 4    \* calls on one ConversationContext
BusRing == 2        \* events the ring of the event bus holds (broadcast::channel(100))
MaxSends == 4       \* events sent on one event bus
MaxKeywords == 4    \* complex keywords one text contains
MaxBullets == 6     \* bullets in one Flash backend answer
MaxPriority == 2    \* largest Bullet.priority a Flash backend answers with
MaxFlash == 2       \* Flash answers one transcript task handles
MaxDeltas == 3      \* text deltas one Deep backend stream carries
MaxWords == 2       \* words of a text that are spelled out (the rest is padding)
MaxSamples == 2     \* samples in one audio frame
MaxUsers == 1       \* rows of the users table
MaxDevices == 2     \* device ids
MaxTokens == 4      \* refresh tokens generated
MaxRefresh == 2     \* refresh requests served
MaxLogoutAll == 1   \* logout_all requests served
MaxStarts == 2      \* successful start() calls on the pipeline of LifeSpec

\* Program constants.
MaxTurns == 20      \* ConversationContext::default
MaxSegments == 100  \* TranscriptBuffer::default

Sessions == 1..MaxSessions
Dangling == MaxSessions + 1
NoSeg == 0

VARIABLES
    config,         \* PipelineConfig: [stt_key, deep_ok]
    is_running,     \* CopilotState.is_running
    cstate,         \* rest of CopilotState: transcript, flash, deep_content, deep_streaming, error
    shutdown_tx,    \* CopilotPipeline.shutdown_tx: 0 = None, s = Some(sender of session s),
                    \* Dangling = Some(sender whose receiver a failed start() dropped)
    shutdown_ch,    \* per session, the mpsc::channel::<()>(1) of start()
    buffer,         \* TranscriptBuffer: [segments, interim]
    turns,          \* ConversationContext.turns
    events,         \* every PipelineEvent sent on event_tx, in order
    task_pc,        \* per session, position of the transcript processing task
    cur,            \* per session, id of the segment whose analysis the task is awaiting
    transcript_q,   \* per session, the transcript channel (STT receive task -> transcript task)
    audio_fwd,      \* per session, the audio forwarding task
    stt_send,       \* per session, the Deepgram send task
    stt_recv,       \* per session, the Deepgram receive task
    flash_inflight, \* Flash requests sent and not yet answered: set of [sess, seg]
    deep,           \* open Deep streams: [sess, seg] -> [prod, ch, sent]
    nsess,          \* number of sessions started so far
    stop_calls,     \* number of stop() calls so far
    last_start,     \* result of the latest start() call
    nsegs,          \* number of websocket messages delivered so far
    msgs,           \* history: for websocket message k, [sess, is_final, text, during], during =
                    \* the segment the transcript task was analysing when k arrived
    flash_log,      \* history: every Flash request issued, in order
    deep_log,       \* history: every run_deep_analysis call, in order
    deep_end,       \* history: terminal chunk consumed for each Deep stream
    finished,       \* history: segments whose analysis ran to its end
    stt_err,        \* history: sessions whose STT connection failed while they were running
    audio_err       \* history: sessions whose audio error callback ran while they were running

progvars == <<config, is_running, cstate, shutdown_tx, shutdown_ch, buffer, turns, events,
              task_pc, cur, transcript_q, audio_fwd, stt_send, stt_recv,
              flash_inflight, deep>>
VARIABLES
    tb,             \* a TranscriptBuffer: [segments, interim]
    tb_max,         \* its max_segments
    tb_adds,        \* number of add() calls made on it
    tb_finals,      \* history: the final segments added since the last clear()
    tb_call,        \* history: the latest call, [op, seg]
    tb_before       \* history: the buffer before the latest call

VARIABLES
    ctx,            \* a ConversationContext: [turns, max_turns, mode_context, key_facts,
                    \* objections_raised]
    ctx_calls,      \* number of calls made on it
    ctx_added,      \* history: the turns added since the last clear()
    ctx_call,       \* history: the latest call, [op, ...]
    ctx_before      \* history: the context before the latest call

VARIABLES
    bus_log,        \* an event bus: every event sent on event_tx, in order; the ring of
                    \* the broadcast channel holds the last BusRing of them
    rt_next,        \* the runtime's event_rx: index of the next event it reads
    rt_alive,       \* whether the runtime's event listener task is still in its loop
    shared,         \* the runtime's SharedState: [is_running, status, error]
    rt_got,         \* history: the indices of the events the listener received
    rt_lost         \* history: the events overwritten in the ring before the listener read them

VARIABLES
    rcfg,           \* a HybridRouter's config: [strategy, openai_key, anthropic_key,
                    \* google_key, cloud_threshold]
    local_available,\* HybridRouter.local_available
    rtext,          \* the text the router is called with
    rpc,            \* position of the analyze_flash call: "idle", "first_call",
                    \* "fallback_call", "returned"
    rsel,           \* the latest select_provider call: [op, text, live, provider]; live is
                    \* local_available at the call
    rret,           \* what the latest analyze_flash call returned
    rcalls,         \* history: the backend calls the latest analyze_flash made
    rfirst          \* history: how the first backend call of the latest analyze_flash ended

VARIABLES
    fa_flash,       \* CopilotState.flash: "None" or the FlashAnalysis stored last
    fa_events,      \* every PipelineEvent the Flash step sent on event_tx, in order
    fa_calls        \* number of run_flash_analysis calls that returned

VARIABLES
    ds_prod,        \* a Deep stream: the task ClaudeDeep::analyze_streaming spawned,
                    \* "none", "running" or "returned"
    ds_text,        \* the text deltas the backend has sent on it, in order
    ds_ch,          \* its mpsc channel of StreamChunk
    ds_pc,          \* the run_deep_analysis call reading it: "none", "recv" or "returned"
    ds_state,       \* CopilotState: [deep_content, question_to_ask, deep_streaming]
    ds_events       \* every PipelineEvent that call sent on event_tx, in order

VARIABLES
    cx_text,        \* the text Complexity::from_text is called with
    cx_ret          \* what the call returned, "none" before it

VARIABLES
    pcm_in,         \* the samples f32_to_pcm_bytes is called with
    pcm_out,        \* the bytes it returned
    pcm_done        \* whether the call has been made

VARIABLES
    tk_version,     \* the users table: user -> token_version
    tk_rows,        \* the refresh_tokens table: <<user, device>> -> [present, hash,
                    \* version, expired]; expired = expires_at is in the past
    tk_issued,      \* number of tokens generate_token has returned; they are 1..tk_issued
    tk_req,         \* the refresh requests: p -> [pc, token, device, user, version, ret, with]
    tk_last         \* history: the refresh request that returned in the latest step, or 0

VARIABLES
    lc_running,     \* a CopilotPipeline whose context store is ctx: CopilotState.is_running
    lc_buffer,      \* its transcript_buffer
    lc_starts,      \* number of start() calls on it that returned Ok after starting
    lc_stops,       \* number of stop() calls on it
    lc_segs,        \* number of segments its transcript tasks received
    lc_kept         \* history: the store before the start()/stop() calls made since the
                    \* latest call on the store

faultvars == <<stt_err, audio_err>>
histvars == <<nsess, stop_calls, last_start, nsegs, msgs, flash_log, deep_log,
              deep_end, finished, faultvars>>
pipevars == <<progvars, histvars>>
bufvars == <<tb, tb_max, tb_adds, tb_finals, tb_call, tb_before>>
ctxvars == <<ctx, ctx_calls, ctx_added, ctx_call, ctx_before>>
busvars == <<bus_log, rt_next, rt_alive, shared, rt_got, rt_lost>>
routevars == <<rcfg, local_available, rtext, rpc, rsel, rret, rcalls, rfirst>>
corevars == <<bufvars, ctxvars, busvars, routevars>>
flashvars == <<fa_flash, fa_events, fa_calls>>
streamvars == <<ds_prod, ds_text, ds_ch, ds_pc, ds_state, ds_events>>
cxvars == <<cx_text, cx_ret>>
pcmvars == <<pcm_in, pcm_out, pcm_done>>
tokvars == <<tk_version, tk_rows, tk_issued, tk_req, tk_last>>
lifevars == <<lc_running, lc_buffer, lc_starts, lc_stops, lc_segs, lc_kept>>
extvars == <<flashvars, streamvars, cxvars, pcmvars, tokvars, lifevars>>
unitvars == <<corevars, extvars>>
vars == <<pipevars, unitvars>>

Range(f) == {f[i] : i \in DOMAIN f}
Ev(t, s, k) == [type |-> t, sess |-> s, seg |-> k]
Req(s, k) == [sess |-> s, seg |-> k]

----------------------------------------------------------------------------
(* TranscriptBuffer *)

\* `while segments.len() > self.max_segments { segments.pop_front(); }`
RECURSIVE TrimFront(_, _)
TrimFront(segs, n) ==
    IF Len(segs) > n THEN TrimFront(Tail(segs), n) ELSE segs

\* Mutant: a full buffer drops the new final segment instead of the oldest.
BufferAddN_EvictNewest(buf, seg, n) ==
    IF seg.is_final
    THEN [segments |-> IF Len(buf.segments) >= n THEN buf.segments
                       ELSE Append(buf.segments, seg),
          interim |-> <<>>]
    ELSE [buf EXCEPT !.interim = <<seg>>]

\* Mutant: a final segment does not clear the interim slot.
BufferAddN_KeepInterim(buf, seg, n) ==
    IF seg.is_final
    THEN [buf EXCEPT !.segments = TrimFront(Append(buf.segments, seg), n)]
    ELSE [buf EXCEPT !.interim = <<seg>>]

\* TranscriptBuffer::add on a buffer whose max_segments is n
BufferAddN(buf, seg, n) ==
    IF seg.is_final
    THEN [segments |-> TrimFront(Append(buf.segments, seg), n), interim |-> <<>>]
    ELSE [buf EXCEPT !.interim = <<seg>>]

\* TranscriptBuffer::add on the buffer of the pipeline (TranscriptBuffer::default)
BufferAdd(buf, seg) == BufferAddN(buf, seg, MaxSegments)

\* TranscriptBuffer::get_current_text, as the sequence of the joined parts
GetCurrentText(buf) == [i \in 1..Len(buf.segments \o buf.interim) |->
                            (buf.segments \o buf.interim)[i].text]

\* TranscriptBuffer::clear
BufferClear == [segments |-> <<>>, interim |-> <<>>]

\* TranscriptBuffer::is_empty
BufferIsEmpty(buf) == buf.segments = <<>> /\ buf.interim = <<>>

(* ConversationContext *)

\* Mutant: add_turn without the trim loop.
AddTurnN_NoTrim(ts, turn, n) == Append(ts, turn)

\* ConversationContext::add_turn on a store whose max_turns is n
AddTurnN(ts, turn, n) == TrimFront(Append(ts, turn), n)

\* ConversationContext::add_turn on the store of the pipeline
\* (ConversationContext::default), called by add_their_turn
AddTurn(ts, turn) == AddTurnN(ts, turn, MaxTurns)

\* ConversationContext::new(n)
NewContext(n) == [turns |-> <<>>, max_turns |-> n, mode_context |-> "",
                  key_facts |-> <<>>, objections_raised |-> <<>>]

----------------------------------------------------------------------------
PipelineInit ==
    /\ config \in [stt_key : BOOLEAN, deep_ok : BOOLEAN]
    /\ is_running = FALSE
    /\ cstate = [transcript |-> <<>>, flash |-> NoSeg, deep_content |-> <<>>,
                 deep_streaming |-> FALSE, error |-> FALSE]
    /\ shutdown_tx = 0
    /\ shutdown_ch = [s \in Sessions |-> "none"]
    /\ buffer = BufferClear
    /\ turns = <<>>
    /\ events = <<>>
    /\ task_pc = [s \in Sessions |-> "none"]
    /\ cur = [s \in Sessions |-> NoSeg]
    /\ transcript_q = [s \in Sessions |-> <<>>]
    /\ audio_fwd = [s \in Sessions |-> "none"]
    /\ stt_send = [s \in Sessions |-> "none"]
    /\ stt_recv = [s \in Sessions |-> "none"]
    /\ flash_inflight = {}
    /\ deep = <<>>
    /\ nsess = 0
    /\ stop_calls = 0
    /\ last_start = "none"
    /\ nsegs = 0
    /\ msgs = <<>>
    /\ flash_log = <<>>
    /\ deep_log = <<>>
    /\ deep_end = <<>>
    /\ finished = {}
    /\ stt_err = {}
    /\ audio_err = {}

\* The other objects of this module, before any call is made on them.
NoCall == [op |-> "new"]
BufIdle ==
    /\ tb = [segments |-> <<>>, interim |-> <<>>]
    /\ tb_max = MaxSegments
    /\ tb_adds = 0
    /\ tb_finals = <<>>
    /\ tb_call = NoCall
    /\ tb_before = tb

CtxIdle ==
    /\ ctx = NewContext(MaxTurns)
    /\ ctx_calls = 0
    /\ ctx_added = <<>>
    /\ ctx_call = NoCall
    /\ ctx_before = ctx

\* CopilotPipeline::new and pipeline.subscribe(): an empty bus, the listener
\* about to be spawned, SharedState as the runtime created it
BusIdle ==
    /\ bus_log = <<>>
    /\ rt_next = 1
    /\ rt_alive = TRUE
    /\ shared = [is_running |-> FALSE, status |-> "Ready", error |-> FALSE]
    /\ rt_got = <<>>
    /\ rt_lost = {}

\* HybridRouterConfig::default and HybridRouter::new
RouterIdle ==
    /\ rcfg = [strategy |-> "Smart", openai_key |-> FALSE, anthropic_key |-> FALSE,
               google_key |-> FALSE, cloud_threshold |-> "Moderate"]
    /\ local_available = FALSE
    /\ rtext = [complex |-> 0, simple |-> 0, words |-> 5, qmarks |-> 1]
    /\ rpc = "idle"
    /\ rsel = NoCall
    /\ rret = NoCall
    /\ rcalls = <<>>
    /\ rfirst = "none"

CoreIdle == BufIdle /\ CtxIdle /\ BusIdle /\ RouterIdle

\* CopilotState::default and a bus nothing was sent on
FlashIdle ==
    /\ fa_flash = "None"
    /\ fa_events = <<>>
    /\ fa_calls = 0

\* no Deep stream opened yet
StreamIdle ==
    /\ ds_prod = "none"
    /\ ds_text = <<>>
    /\ ds_ch = <<>>
    /\ ds_pc = "none"
    /\ ds_state = [deep_content |-> <<>>, question_to_ask |-> "None",
                   deep_streaming |-> FALSE]
    /\ ds_events = <<>>

\* no text classified yet
CxIdle ==
    /\ cx_text = [words |-> <<>>, upper |-> FALSE, qmarks |-> 0, pad |-> 0]
    /\ cx_ret = "none"

\* no audio frame converted yet
PcmIdle ==
    /\ pcm_in = <<>>
    /\ pcm_out = <<>>
    /\ pcm_done = FALSE

\* the API's database before any request: users registered, no refresh token
Users == 1..MaxUsers
Devices == 1..MaxDevices
RefreshRequests == 1..MaxRefresh
NoRow == [present |-> FALSE, hash |-> [sha256 |-> 0], version |-> 0, expired |-> FALSE]
NoRet == [ok |-> FALSE, err |-> "none", token |-> 0]
TokIdle ==
    /\ tk_version = [u \in Users |-> 0]
    /\ tk_rows = [k \in Users \X Devices |-> NoRow]
    /\ tk_issued = 0
    /\ tk_req = [p \in RefreshRequests |->
                    [pc |-> "idle", token |-> 0, device |-> 0, user |-> 0, version |-> 0,
                     ret |-> NoRet, with |-> {}]]
    /\ tk_last = 0

\* CopilotPipeline::new
LifeIdle ==
    /\ lc_running = FALSE
    /\ lc_buffer = BufferClear
    /\ lc_starts = 0
    /\ lc_stops = 0
    /\ lc_segs = 0
    /\ lc_kept = NewContext(MaxTurns)

ExtIdle == FlashIdle /\ StreamIdle /\ CxIdle /\ PcmIdle /\ TokIdle /\ LifeIdle

UnitsIdle == CoreIdle /\ ExtIdle

Init == PipelineInit /\ UnitsIdle

----------------------------------------------------------------------------
(* CopilotPipeline::start *)

\* start() on a running pipeline: returns Ok(()) at once.
StartAlreadyRunning ==
    /\ is_running
    /\ last_start' = "noop"
    /\ UNCHANGED <<progvars, nsess, stop_calls, nsegs, msgs, flash_log, deep_log, deep_end,
                   finished,
                   faultvars, unitvars>>

\* start() with neither STT key: returns Err before anything is created.
StartNoKey ==
    /\ ~is_running
    /\ ~config.stt_key
    /\ last_start' = "err"
    /\ UNCHANGED <<progvars, nsess, stop_calls, nsegs, msgs, flash_log, deep_log, deep_end,
                   finished,
                   faultvars, unitvars>>

\* start() whose audio_capture.start() or start_streaming() fails: the `?`
\* returns Err after shutdown_tx was stored; shutdown_rx is dropped.
StartFail ==
    /\ ~is_running
    /\ config.stt_key
    /\ \E reason \in {"audio", "stt"} : shutdown_tx' = Dangling
    /\ last_start' = "err"
    /\ UNCHANGED <<config, is_running, cstate, shutdown_ch, buffer, turns, events, task_pc,
                   cur, transcript_q, audio_fwd, stt_send, stt_recv, flash_inflight, deep,
                   nsess, stop_calls, nsegs, msgs, flash_log, deep_log, deep_end, finished,
                   faultvars, unitvars>>

\* start() from line 149 to its return, when nothing fails: Started is sent and
\* the tasks are spawned.  The audio stream plays from audio_capture.start()
\* until audio_capture is dropped at the return of start(); audio_error says
\* whether the stream's error callback (audio.rs:156-159) ran after
\* is_running was set.  The callback writes AudioCaptureState::Error into the
\* capture's own state, which is dropped with the capture.
StartSession(audio_error) ==
    /\ nsess < MaxSessions
    /\ ~is_running
    /\ config.stt_key
    /\ LET s == nsess + 1 IN
        /\ shutdown_tx' = s
        /\ shutdown_ch' = [shutdown_ch EXCEPT ![s] = "open"]
        /\ is_running' = TRUE
        /\ events' = Append(events, Ev("Started", s, NoSeg))
        /\ task_pc' = [task_pc EXCEPT ![s] = "select"]
        /\ audio_fwd' = [audio_fwd EXCEPT ![s] = "running"]
        /\ stt_send' = [stt_send EXCEPT ![s] = "running"]
        /\ stt_recv' = [stt_recv EXCEPT ![s] = "running"]
        /\ audio_err' = IF audio_error THEN audio_err \cup {s} ELSE audio_err
    /\ nsess' = nsess + 1
    /\ last_start' = "ok"
    /\ UNCHANGED <<config, cstate, buffer, turns, cur, transcript_q, flash_inflight, deep,
                   stop_calls, nsegs, msgs, flash_log, deep_log, deep_end, finished,
                   stt_err, unitvars>>

\* start() that succeeds, the audio source reporting no error.
StartOk == StartSession(FALSE)

\* start() that succeeds, the audio source reporting an error while the
\* session is running.
StartAudioError == StartSession(TRUE)

(* CopilotPipeline::stop *)

\* try_send on the shutdown channel of the session the sender belongs to
TrySendShutdown(ch, tx) ==
    IF tx \notin Sessions THEN ch
    ELSE [ch EXCEPT ![tx] = IF ch[tx] = "open" THEN "msg" ELSE ch[tx]]

\* History tag of a Stopped event: the session stop() ends (0 when the
\* pipeline is not running) and the segment whose Deep stream has already
\* delivered a DeepChunk and is still open at that moment (NoSeg if none).
StoppedSession == IF is_running THEN shutdown_tx ELSE 0
StreamingAt(s) ==
    LET open == {r \in DOMAIN deep : /\ r.sess = s
                                      /\ \E i \in DOMAIN events :
                                            events[i] = Ev("DeepChunk", s, r.seg)}
    IN  IF open = {} THEN NoSeg ELSE (CHOOSE r \in open : TRUE).seg

Stop ==
    /\ stop_calls < MaxStops
    /\ shutdown_ch' = TrySendShutdown(shutdown_ch, shutdown_tx)
    /\ shutdown_tx' = 0
    /\ is_running' = FALSE
    /\ buffer' = BufferClear
    /\ events' = Append(events, Ev("Stopped", StoppedSession, StreamingAt(StoppedSession)))
    /\ stop_calls' = stop_calls + 1
    /\ UNCHANGED <<config, cstate, turns, task_pc, cur, transcript_q, audio_fwd, stt_send,
                   stt_recv, flash_inflight, deep,
                   nsess, last_start, nsegs, msgs, flash_log, deep_log, deep_end,
                   finished,
                   faultvars, unitvars>>

----------------------------------------------------------------------------
(* The transcript processing task spawned by start() *)

\* Mutant: the is_final test is left out.
TriggersAnalysis_AnySegment(seg) == seg.text # ""

\* `if segment.is_final && !segment.text.is_empty()`
TriggersAnalysis(seg) == seg.is_final /\ seg.text # ""

\* Mutant: the analysis is spawned instead of awaited, and the task goes
\* back to its select loop.
AfterFlashIssued_NotAwaited == "select"

\* run_flash_analysis(...).await: the task waits for the Flash result
AfterFlashIssued == "flash"

\* select! arm `Some(segment) = transcript_rx.recv()` up to the first await.
TaskRecv(s) ==
    /\ task_pc[s] = "select"
    /\ transcript_q[s] # <<>>
    /\ LET seg == Head(transcript_q[s])
           buf == BufferAdd(buffer, seg)
       IN  /\ transcript_q' = [transcript_q EXCEPT ![s] = Tail(@)]
           /\ buffer' = buf
           /\ cstate' = [cstate EXCEPT !.transcript = GetCurrentText(buf)]
           /\ events' = Append(events, Ev("Transcript", s, seg.id))
           /\ IF TriggersAnalysis(seg)
              THEN /\ turns' = AddTurn(turns, [speaker |-> "Them", text |-> seg.text,
                                               sess |-> s, seg |-> seg.id])
                   /\ flash_inflight' = flash_inflight \cup {Req(s, seg.id)}
                   /\ flash_log' = Append(flash_log, Req(s, seg.id))
                   /\ task_pc' = [task_pc EXCEPT ![s] = AfterFlashIssued]
                   /\ cur' = [cur EXCEPT ![s] = seg.id]
              ELSE UNCHANGED <<turns, flash_inflight, flash_log, task_pc, cur>>
    /\ UNCHANGED <<config, is_running, shutdown_tx, shutdown_ch, audio_fwd, stt_send,
                   stt_recv, deep,
                   nsess, stop_calls, last_start, nsegs, msgs, deep_log, deep_end,
                   finished,
                   faultvars, unitvars>>

\* select! arm `_ = shutdown_rx.recv()`: break; the task ends and drops its receivers.
TaskShutdown(s) ==
    /\ task_pc[s] = "select"
    /\ shutdown_ch[s] = "msg"
    /\ task_pc' = [task_pc EXCEPT ![s] = "done"]
    /\ shutdown_ch' = [shutdown_ch EXCEPT ![s] = "rx_dropped"]
    /\ transcript_q' = [transcript_q EXCEPT ![s] = <<>>]
    /\ UNCHANGED <<config, is_running, cstate, shutdown_tx, buffer, turns, events, cur,
                   audio_fwd, stt_send, stt_recv, flash_inflight, deep, histvars, unitvars>>

\* The Flash backend answers with an error (transport error or malformed
\* JSON): `if let Ok(flash) = flash_result` skips the body.
FlashFail(r) ==
    /\ r \in flash_inflight
    /\ flash_inflight' = flash_inflight \ {r}
    /\ task_pc' = [task_pc EXCEPT ![r.sess] = "select"]
    /\ cur' = [cur EXCEPT ![r.sess] = NoSeg]
    /\ finished' = finished \cup {r.seg}
    /\ UNCHANGED <<config, is_running, cstate, shutdown_tx, shutdown_ch, buffer, turns,
                   events, transcript_q, audio_fwd, stt_send, stt_recv, deep,
                   nsess, stop_calls, last_start, nsegs, msgs, flash_log, deep_log,
                   deep_end,
                   faultvars, unitvars>>

\* The Flash backend answers Ok: FlashReady, then run_deep_analysis up to
\* its first recv().await; the router has a client for config.deep_model.
FlashOk(r) ==
    /\ r \in flash_inflight
    /\ config.deep_ok
    /\ flash_inflight' = flash_inflight \ {r}
    /\ cstate' = [cstate EXCEPT !.flash = r.seg, !.deep_streaming = TRUE,
                                !.deep_content = <<>>]
    /\ events' = Append(events, Ev("FlashReady", r.sess, r.seg))
    /\ deep' = deep @@ (r :> [prod |-> "running", ch |-> <<>>, sent |-> 0])
    /\ deep_log' = Append(deep_log, r)
    /\ task_pc' = [task_pc EXCEPT ![r.sess] = "deep"]
    /\ UNCHANGED <<config, is_running, shutdown_tx, shutdown_ch, buffer, turns, cur,
                   transcript_q, audio_fwd, stt_send, stt_recv,
                   nsess, stop_calls, last_start, nsegs, msgs, flash_log, deep_end,
                   finished,
                   faultvars, unitvars>>

\* The Flash backend answers Ok but the router has no client for
\* config.deep_model: analyze_streaming returns Err, `?` returns it and the
\* task sends Error.
FlashOkDeepErr(r) ==
    /\ r \in flash_inflight
    /\ ~config.deep_ok
    /\ flash_inflight' = flash_inflight \ {r}
    /\ cstate' = [cstate EXCEPT !.flash = r.seg, !.deep_streaming = TRUE,
                                !.deep_content = <<>>]
    /\ events' = events \o <<Ev("FlashReady", r.sess, r.seg), Ev("Error", r.sess, r.seg)>>
    /\ deep_log' = Append(deep_log, r)
    /\ deep_end' = deep_end @@ (r :> "Err")
    /\ task_pc' = [task_pc EXCEPT ![r.sess] = "select"]
    /\ cur' = [cur EXCEPT ![r.sess] = NoSeg]
    /\ finished' = finished \cup {r.seg}
    /\ UNCHANGED <<config, is_running, shutdown_tx, shutdown_ch, buffer, turns,
                   transcript_q, audio_fwd, stt_send, stt_recv, deep,
                   nsess, stop_calls, last_start, nsegs, msgs, flash_log,
                   faultvars, unitvars>>

----------------------------------------------------------------------------
(* The Deep stream producer task (ClaudeSonnet / GPT4o analyze_streaming) *)

\* tx.send(StreamChunk::Content(text))
ProducerContent(r) ==
    /\ r \in DOMAIN deep
    /\ deep[r].prod = "running"
    /\ deep[r].sent < MaxChunks
    /\ deep' = [deep EXCEPT ![r].ch = Append(@, "Content"), ![r].sent = @ + 1]
    /\ UNCHANGED <<config, is_running, cstate, shutdown_tx, shutdown_ch, buffer, turns,
                   events, task_pc, cur, transcript_q, audio_fwd, stt_send, stt_recv,
                   flash_inflight, histvars, unitvars>>

\* tx.send(StreamChunk::Done) or tx.send(StreamChunk::Error(e)), then the
\* producer returns.
ProducerEnd(r) ==
    /\ r \in DOMAIN deep
    /\ deep[r].prod = "running"
    /\ \E term \in {"Done", "Error"} :
        deep' = [deep EXCEPT ![r].ch = Append(@, term), ![r].prod = "done"]
    /\ UNCHANGED <<config, is_running, cstate, shutdown_tx, shutdown_ch, buffer, turns,
                   events, task_pc, cur, transcript_q, audio_fwd, stt_send, stt_recv,
                   flash_inflight, histvars, unitvars>>

(* run_deep_analysis: the `while let Some(chunk) = stream.receiver.recv().await` loop *)

\* Mutant: the Error arm does not break before DeepComplete is sent.
DeepEvents_CompleteAfterError(chunk, r) ==
    CASE chunk = "Content" -> <<Ev("DeepChunk", r.sess, r.seg)>>
      [] chunk = "Done"    -> <<Ev("DeepComplete", r.sess, r.seg)>>
      [] chunk = "Error"   -> <<Ev("Error", r.sess, r.seg), Ev("DeepComplete", r.sess, r.seg)>>

\* The events run_deep_analysis sends for one chunk
DeepEvents(chunk, r) ==
    CASE chunk = "Content" -> <<Ev("DeepChunk", r.sess, r.seg)>>
      [] chunk = "Done"    -> <<Ev("DeepComplete", r.sess, r.seg)>>
      [] chunk = "Error"   -> <<Ev("Error", r.sess, r.seg)>>

\* The chunks after which the loop breaks
BreaksLoop(chunk) == chunk \in {"Done", "Error"}

DeepRecvContent(r) ==
    /\ r \in DOMAIN deep
    /\ deep[r].ch # <<>>
    /\ ~BreaksLoop(Head(deep[r].ch))
    /\ deep' = [deep EXCEPT ![r].ch = Tail(@)]
    /\ cstate' = [cstate EXCEPT !.deep_content = Append(@, r.seg)]
    /\ events' = events \o DeepEvents(Head(deep[r].ch), r)
    /\ UNCHANGED <<config, is_running, shutdown_tx, shutdown_ch, buffer, turns, task_pc,
                   cur, transcript_q, audio_fwd, stt_send, stt_recv, flash_inflight,
                   histvars, unitvars>>

\* Done or Error: the event is sent, the loop breaks, run_deep_analysis
\* returns Ok(()) and the stream (its receiver) is dropped.
DeepRecvTerminal(r) ==
    /\ r \in DOMAIN deep
    /\ deep[r].ch # <<>>
    /\ BreaksLoop(Head(deep[r].ch))
    /\ LET chunk == Head(deep[r].ch) IN
        /\ cstate' = [cstate EXCEPT !.deep_streaming = FALSE,
                                    !.error = IF chunk = "Error" THEN TRUE ELSE @]
        /\ events' = events \o DeepEvents(chunk, r)
        /\ deep_end' = deep_end @@ (r :> chunk)
    /\ deep' = [x \in DOMAIN deep \ {r} |-> deep[x]]
    /\ task_pc' = [task_pc EXCEPT ![r.sess] = "select"]
    /\ cur' = [cur EXCEPT ![r.sess] = NoSeg]
    /\ finished' = finished \cup {r.seg}
    /\ UNCHANGED <<config, is_running, shutdown_tx, shutdown_ch, buffer, turns,
                   transcript_q, audio_fwd, stt_send, stt_recv, flash_inflight,
                   nsess, stop_calls, last_start, nsegs, msgs, flash_log, deep_log,
                   faultvars, unitvars>>

----------------------------------------------------------------------------
(* The audio forwarding task and the Deepgram tasks *)

\* The audio forwarder: audio_capture is a local of start() and is dropped
\* when start() returns, which drops the stream and every sender of the
\* audio channel; audio_rx.recv() returns None and the task ends.
AudioFwdExit(s) ==
    /\ audio_fwd[s] = "running"
    /\ audio_fwd' = [audio_fwd EXCEPT ![s] = "done"]
    /\ UNCHANGED <<config, is_running, cstate, shutdown_tx, shutdown_ch, buffer, turns,
                   events, task_pc, cur, transcript_q, stt_send, stt_recv,
                   flash_inflight, deep, histvars, unitvars>>

\* The Deepgram send task: every audio_tx is dropped once start() has
\* returned and the forwarder has ended; the task sends the Close frame.
SttSendExit(s) ==
    /\ stt_send[s] = "running"
    /\ audio_fwd[s] = "done"
    /\ stt_send' = [stt_send EXCEPT ![s] = "done"]
    /\ UNCHANGED <<config, is_running, cstate, shutdown_tx, shutdown_ch, buffer, turns,
                   events, task_pc, cur, transcript_q, audio_fwd, stt_recv,
                   flash_inflight, deep, histvars, unitvars>>

\* parse_deepgram_response: None for an empty transcript
ParseDeepgramResponse(id, s, final, text) ==
    IF text = "" THEN <<>>
    ELSE <<[id |-> id, sess |-> s, is_final |-> final, text |-> text]>>

\* The Deepgram receive task gets a Results message: the parsed segment is
\* sent on the transcript channel; the task breaks when the receiver is gone.
SttMessage(s) ==
    /\ stt_recv[s] = "running"
    /\ nsegs < MaxSegs
    /\ \E final \in BOOLEAN, text \in {"", "a"} :
        LET parsed == ParseDeepgramResponse(nsegs + 1, s, final, text) IN
        /\ IF parsed = <<>>
           THEN UNCHANGED <<transcript_q, stt_recv>>
           ELSE IF task_pc[s] = "done"
                THEN /\ stt_recv' = [stt_recv EXCEPT ![s] = "done"]
                     /\ UNCHANGED transcript_q
                ELSE /\ transcript_q' = [transcript_q EXCEPT ![s] = Append(@, parsed[1])]
                     /\ UNCHANGED stt_recv
        /\ msgs' = Append(msgs, [sess |-> s, is_final |-> final, text |-> text,
                                 during |-> cur[s]])
    /\ nsegs' = nsegs + 1
    /\ UNCHANGED <<config, is_running, cstate, shutdown_tx, shutdown_ch, buffer, turns,
                   events, task_pc, cur, audio_fwd, stt_send, flash_inflight, deep,
                   nsess, stop_calls, last_start, flash_log, deep_log, deep_end,
                   finished,
                   faultvars, unitvars>>

\* The Deepgram receive task reads Close or the end of the stream: break;
\* transcript_tx is dropped.
SttDisconnect(s) ==
    /\ stt_recv[s] = "running"
    /\ stt_recv' = [stt_recv EXCEPT ![s] = "done"]
    /\ UNCHANGED <<config, is_running, cstate, shutdown_tx, shutdown_ch, buffer, turns,
                   events, task_pc, cur, transcript_q, audio_fwd, stt_send,
                   flash_inflight, deep, histvars, unitvars>>

\* The Deepgram receive task reads Err(e) (the connection failed): the error
\* is logged, break; transcript_tx is dropped.
SttError(s) ==
    /\ stt_recv[s] = "running"
    /\ stt_recv' = [stt_recv EXCEPT ![s] = "done"]
    /\ stt_err' = IF is_running /\ shutdown_tx = s THEN stt_err \cup {s} ELSE stt_err
    /\ UNCHANGED <<config, is_running, cstate, shutdown_tx, shutdown_ch, buffer, turns,
                   events, task_pc, cur, transcript_q, audio_fwd, stt_send,
                   flash_inflight, deep,
                   nsess, stop_calls, last_start, nsegs, msgs, flash_log, deep_log,
                   deep_end, finished, audio_err, unitvars>>

----------------------------------------------------------------------------
Requests == {Req(s, k) : s \in Sessions, k \in 1..MaxSegs}

Next ==
    \/ StartAlreadyRunning
    \/ StartNoKey
    \/ StartFail
    \/ StartOk
    \/ Stop
    \/ \E s \in Sessions : TaskRecv(s)
    \/ \E s \in Sessions : TaskShutdown(s)
    \/ \E r \in Requests : FlashFail(r)
    \/ \E r \in Requests : FlashOk(r)
    \/ \E r \in Requests : FlashOkDeepErr(r)
    \/ \E r \in Requests : ProducerContent(r)
    \/ \E r \in Requests : ProducerEnd(r)
    \/ \E r \in Requests : DeepRecvContent(r)
    \/ \E r \in Requests : DeepRecvTerminal(r)
    \/ \E s \in Sessions : AudioFwdExit(s)
    \/ \E s \in Sessions : SttSendExit(s)
    \/ \E s \in Sessions : SttMessage(s)
    \/ \E s \in Sessions : SttDisconnect(s)

Spec == Init /\ [][Next]_vars

\* The steps the program takes by itself, which the runtime schedules: a task
\* whose awaited channel has a message (or is closed) runs.  select! polls
\* its ready arms in random order, so the shutdown arm is taken sooner or
\* later when it is ready again and again.  The websocket peer answers the
\* Close frame.  The answers of the Flash and Deep backends are not in the
\* program's hands: no client of the default configuration sets a timeout.
Fairness ==
    /\ \A s \in Sessions :
        /\ WF_vars(TaskRecv(s))
        /\ SF_vars(TaskShutdown(s))
        /\ WF_vars(AudioFwdExit(s))
        /\ WF_vars(SttSendExit(s))
        /\ WF_vars(SttDisconnect(s))
    /\ \A r \in Requests :
        /\ WF_vars(DeepRecvContent(r))
        /\ WF_vars(DeepRecvTerminal(r))

FairSpec == Spec /\ Fairness

\* The pipeline with the faults of its two inputs: the STT connection fails
\* (SttError) and the audio source reports an error (StartAudioError).  On the
\* program's variables SttError acts as SttDisconnect and StartAudioError as
\* StartOk, so Spec and FaultSpec reach the same program states.
NextFault ==
    \/ Next
    \/ StartAudioError
    \/ \E s \in Sessions : SttError(s)

FaultSpec == Init /\ [][NextFault]_vars /\ Fairness

----------------------------------------------------------------------------
(* A TranscriptBuffer on its own (capture/transcript.rs): any sequence of  *)
(* add() and clear() calls on a buffer created by TranscriptBuffer::new(n). *)

PipelineIdle == PipelineInit /\ config = [stt_key |-> FALSE, deep_ok |-> FALSE]

\* TranscriptBuffer::new(n)
BufInit ==
    /\ PipelineIdle /\ ExtIdle /\ CtxIdle /\ BusIdle /\ RouterIdle
    /\ tb = [segments |-> <<>>, interim |-> <<>>]
    /\ tb_max \in 1..MaxBufBound
    /\ tb_adds = 0
    /\ tb_finals = <<>>
    /\ tb_call = NoCall
    /\ tb_before = tb

\* buffer.add(segment)
TbAdd ==
    /\ tb_adds < MaxAdds
    /\ \E final \in BOOLEAN, text \in {"a", "b"} :
        LET seg == [id |-> tb_adds + 1, is_final |-> final, text |-> text] IN
        /\ tb' = BufferAddN(tb, seg, tb_max)
        /\ tb_finals' = IF final THEN Append(tb_finals, seg) ELSE tb_finals
        /\ tb_call' = [op |-> "add", seg |-> seg]
    /\ tb_adds' = tb_adds + 1
    /\ tb_before' = tb
    /\ UNCHANGED <<pipevars, extvars, tb_max, ctxvars, busvars, routevars>>

\* buffer.clear()
TbClear ==
    /\ tb' = BufferClear
    /\ tb_finals' = <<>>
    /\ tb_call' = [op |-> "clear"]
    /\ tb_before' = tb
    /\ UNCHANGED <<pipevars, extvars, tb_max, tb_adds, ctxvars, busvars, routevars>>

BufNext == TbAdd \/ TbClear

BufSpec == BufInit /\ [][BufNext]_vars

----------------------------------------------------------------------------
(* A ConversationContext on its own (brain/context.rs): any sequence of    *)
(* calls on a store created by ConversationContext::new(n).                *)

CtxInit ==
    /\ PipelineIdle /\ ExtIdle /\ BufIdle /\ BusIdle /\ RouterIdle
    /\ \E n \in 0..MaxCtxBound : ctx = NewContext(n)
    /\ ctx_calls = 0
    /\ ctx_added = <<>>
    /\ ctx_call = NoCall
    /\ ctx_before = ctx

\* What every call of the store does to the history variables
CtxCalled(call) ==
    /\ ctx_calls < MaxCtxCalls
    /\ ctx_calls' = ctx_calls + 1
    /\ ctx_call' = call
    /\ ctx_before' = ctx
    /\ UNCHANGED <<pipevars, extvars, bufvars, busvars, routevars>>

\* ctx.add_their_turn(text, intent)
CtxAddTheirTurn ==
    \E text \in {"a", "b"}, intent \in {"None", "pricing"} :
        LET turn == [speaker |-> "Them", text |-> text, intent |-> intent,
                     id |-> ctx_calls + 1] IN
        /\ ctx' = [ctx EXCEPT !.turns = AddTurnN(@, turn, ctx.max_turns)]
        /\ ctx_added' = Append(ctx_added, turn)
        /\ CtxCalled([op |-> "add_their_turn", turn |-> turn])

\* ctx.add_my_turn(text)
CtxAddMyTurn ==
    \E text \in {"a", "b"} :
        LET turn == [speaker |-> "Me", text |-> text, intent |-> "None",
                     id |-> ctx_calls + 1] IN
        /\ ctx' = [ctx EXCEPT !.turns = AddTurnN(@, turn, ctx.max_turns)]
        /\ ctx_added' = Append(ctx_added, turn)
        /\ CtxCalled([op |-> "add_my_turn", turn |-> turn])

\* ctx.set_mode_context(context)
CtxSetModeContext ==
    /\ ctx' = [ctx EXCEPT !.mode_context = "sales"]
    /\ UNCHANGED ctx_added
    /\ CtxCalled([op |-> "set_mode_context"])

\* ctx.add_key_fact(fact)
CtxAddKeyFact ==
    /\ ctx' = [ctx EXCEPT !.key_facts = Append(@, "fact")]
    /\ UNCHANGED ctx_added
    /\ CtxCalled([op |-> "add_key_fact"])

\* ctx.record_objection(objection)
CtxRecordObjection ==
    /\ ctx' = [ctx EXCEPT !.objections_raised = Append(@, "objection")]
    /\ UNCHANGED ctx_added
    /\ CtxCalled([op |-> "record_objection"])

\* ctx.clear()
CtxClear ==
    /\ ctx' = [ctx EXCEPT !.turns = <<>>, !.key_facts = <<>>, !.objections_raised = <<>>]
    /\ ctx_added' = <<>>
    /\ CtxCalled([op |-> "clear"])

CtxNext ==
    \/ CtxAddTheirTurn
    \/ CtxAddMyTurn
    \/ CtxSetModeContext
    \/ CtxAddKeyFact
    \/ CtxRecordObjection
    \/ CtxClear

CtxSpec == CtxInit /\ [][CtxNext]_vars

----------------------------------------------------------------------------
(* The event bus of one pipeline and the runtime's event listener           *)
(* (brain/pipeline.rs: new, subscribe; ui/runtime.rs: start_pipeline).      *)
(* tokio's broadcast channel keeps the last BusRing values; recv() of a     *)
(* receiver whose next value was overwritten returns Err(Lagged) and moves  *)
(* the receiver to the oldest value kept.                                   *)

BusInit == PipelineIdle /\ ExtIdle /\ BufIdle /\ CtxIdle /\ BusIdle /\ RouterIdle

\* The oldest index the ring still holds when n events have been sent
OldestKept(n) == IF n > BusRing THEN n - BusRing + 1 ELSE 1

\* `let _ = event_tx.send(event)`
BusSend ==
    /\ Len(bus_log) < MaxSends
    /\ \E type \in {"Started", "Stopped", "Error"} :
        bus_log' = Append(bus_log, type)
    /\ rt_lost' = rt_lost \cup {i \in rt_next..Len(bus_log) : i < OldestKept(Len(bus_log) + 1)}
    /\ UNCHANGED <<pipevars, extvars, bufvars, ctxvars, routevars, rt_next, rt_alive, shared, rt_got>>

\* The body of the listener's loop: the event is mirrored into SharedState
Mirror(st, event) ==
    CASE event = "Started" -> [st EXCEPT !.is_running = TRUE, !.status = "Listening",
                                         !.error = FALSE]
      [] event = "Stopped" -> [st EXCEPT !.is_running = FALSE, !.status = "Stopped"]
      [] event = "Error"   -> [st EXCEPT !.error = TRUE, !.status = "Error"]

\* `while let Ok(event) = event_rx.recv().await`: recv() returns Ok(event)
RtRecvOk ==
    /\ rt_alive
    /\ rt_next <= Len(bus_log)
    /\ rt_next >= OldestKept(Len(bus_log))
    /\ shared' = Mirror(shared, bus_log[rt_next])
    /\ rt_got' = Append(rt_got, rt_next)
    /\ rt_next' = rt_next + 1
    /\ UNCHANGED <<pipevars, extvars, bufvars, ctxvars, routevars, bus_log, rt_alive, rt_lost>>

\* `while let Ok(event) = event_rx.recv().await`: recv() returns
\* Err(RecvError::Lagged(n)); the pattern does not match, the loop ends and
\* the task returns, dropping event_rx.
RtRecvLagged ==
    /\ rt_alive
    /\ rt_next <= Len(bus_log)
    /\ rt_next < OldestKept(Len(bus_log))
    /\ rt_alive' = FALSE
    /\ rt_next' = OldestKept(Len(bus_log))
    /\ UNCHANGED <<pipevars, extvars, bufvars, ctxvars, routevars, bus_log, shared, rt_got, rt_lost>>

BusNext == BusSend \/ RtRecvOk \/ RtRecvLagged

\* The listener is a spawned task: the runtime runs it when recv() is ready.
BusFairSpec == BusInit /\ [][BusNext]_vars /\ WF_vars(RtRecvOk) /\ WF_vars(RtRecvLagged)

----------------------------------------------------------------------------
(* The hybrid router (brain/hybrid_router.rs): select_provider and the     *)
(* calls analyze_flash makes.  A text is given by what Complexity::from_text *)
(* reads of it: how many of the complex and of the simple keywords it      *)
(* contains, its number of words and its number of question marks.         *)

Strategies == {"AlwaysLocal", "AlwaysCloud", "Smart", "LocalWithFallback", "SpeedFirst",
               "QualityFirst"}
Complexities == <<"Simple", "Moderate", "Complex", "Critical">>
Texts == [complex : 0..MaxKeywords, simple : {0, 1}, words : {5, 16, 31}, qmarks : {1, 2}]

\* The derived order of enum Complexity
Rank(c) == CHOOSE i \in DOMAIN Complexities : Complexities[i] = c

\* Complexity::from_text
FromText(text) ==
    LET score == 2 * text.complex - text.simple
                 + (IF text.words > 30 THEN 2 ELSE IF text.words > 15 THEN 1 ELSE 0)
                 + (IF text.qmarks > 1 THEN 1 ELSE 0)
    IN  IF score <= 0 THEN "Simple"
        ELSE IF score <= 3 THEN "Moderate"
        ELSE IF score <= 6 THEN "Complex"
        ELSE "Critical"

\* AIProvider values; the model names are those of HybridRouterConfig::default
Local == [kind |-> "Local", model |-> "llama3.1:8b"]
Cloud(kind, model) == [kind |-> kind, model |-> model]

\* HybridRouter::best_cloud_provider
BestCloudProvider(cfg) ==
    IF cfg.google_key THEN Cloud("Google", "gemini-2.0-flash-exp")
    ELSE IF cfg.openai_key THEN Cloud("OpenAI", "gpt-4o-mini")
    ELSE IF cfg.anthropic_key THEN Cloud("Anthropic", "claude-3-5-sonnet-20241022")
    ELSE Local

\* Mutant: the Smart arm does not look at local_available.
SelectProvider_SmartIgnoresLiveness(cfg, live, text) ==
    IF cfg.strategy = "Smart" /\ Rank(FromText(text)) < Rank(cfg.cloud_threshold)
    THEN Local
    ELSE BestCloudProvider(cfg)

\* HybridRouter::select_provider
SelectProvider(cfg, live, text) ==
    CASE cfg.strategy = "AlwaysLocal" -> Local
      [] cfg.strategy = "AlwaysCloud" -> BestCloudProvider(cfg)
      [] cfg.strategy = "Smart" ->
            IF Rank(FromText(text)) < Rank(cfg.cloud_threshold)
            THEN IF live THEN Local ELSE BestCloudProvider(cfg)
            ELSE BestCloudProvider(cfg)
      [] cfg.strategy = "LocalWithFallback" ->
            IF live THEN Local ELSE BestCloudProvider(cfg)
      [] cfg.strategy = "SpeedFirst" ->
            IF live THEN Local
            ELSE IF cfg.google_key THEN Cloud("Google", "gemini-2.0-flash-exp")
            ELSE IF cfg.openai_key THEN Cloud("OpenAI", "gpt-4o-mini")
            ELSE Cloud("Anthropic", "claude-3-5-sonnet-20241022")
      [] cfg.strategy = "QualityFirst" ->
            IF cfg.anthropic_key THEN Cloud("Anthropic", "claude-3-5-sonnet-20241022")
            ELSE IF cfg.openai_key THEN Cloud("OpenAI", "gpt-4o")
            ELSE IF cfg.google_key THEN Cloud("Google", "gemini-2.0-flash-exp")
            ELSE Local

\* analyze_flash, the `match &provider`: the client that is called for the
\* provider, or "NoKey" when `?` returns the missing-key error
FirstClient(cfg, provider) ==
    CASE provider.kind = "Local" -> "OllamaFlash"
      [] provider.kind = "Google" -> IF cfg.google_key THEN "GeminiFlash" ELSE "NoKey"
      [] provider.kind = "OpenAI" -> IF cfg.openai_key THEN "GPT4oMini" ELSE "NoKey"
      [] provider.kind = "Anthropic" ->
            IF ~cfg.openai_key /\ ~cfg.google_key THEN "NoKey"
            ELSE IF cfg.google_key THEN "GeminiFlash" ELSE "GPT4oMini"

\* analyze_with_provider, the `match provider`: the client that is called,
\* "NoKey", or "Unsupported" for the `_` arm
FallbackClient(cfg, provider) ==
    CASE provider.kind = "Google" -> IF cfg.google_key THEN "GeminiFlash" ELSE "NoKey"
      [] provider.kind = "OpenAI" -> IF cfg.openai_key THEN "GPT4oMini" ELSE "NoKey"
      [] OTHER -> "Unsupported"

\* Mutant: every strategy falls back to the cloud when the local call fails.
FallbackStrategies_All == Strategies

\* `matches!(self.config.strategy, LocalWithFallback | Smart)`
FallbackStrategies == {"LocalWithFallback", "Smart"}

Ok(provider) == [op |-> "ok", provider |-> provider]
Err(why) == [op |-> "err", why |-> why]

\* HybridRouter::new(config)
RouterInit ==
    /\ PipelineIdle /\ ExtIdle /\ BufIdle /\ CtxIdle /\ BusIdle
    /\ rcfg \in [strategy : Strategies, openai_key : BOOLEAN, anthropic_key : BOOLEAN,
                 google_key : BOOLEAN, cloud_threshold : Range(Complexities)]
    /\ local_available = FALSE
    /\ rtext \in Texts
    /\ rpc = "idle"
    /\ rsel = NoCall
    /\ rret = NoCall
    /\ rcalls = <<>>
    /\ rfirst = "none"

\* router.check_local()
CheckLocal ==
    /\ rpc \in {"idle", "returned"}
    /\ \E available \in BOOLEAN : local_available' = available
    /\ UNCHANGED <<pipevars, extvars, bufvars, ctxvars, busvars, rcfg, rtext, rpc, rsel, rret, rcalls,
                   rfirst>>

\* router.select_provider(text, mode), called from outside analyze_flash
SelectProviderCall ==
    /\ rpc \in {"idle", "returned"}
    /\ rsel' = [op |-> "select", text |-> rtext, live |-> local_available,
                provider |-> SelectProvider(rcfg, local_available, rtext)]
    /\ UNCHANGED <<pipevars, extvars, bufvars, ctxvars, busvars, rcfg, local_available, rtext, rpc,
                   rret, rcalls, rfirst>>

\* router.analyze_flash(transcript, context) up to the await of the first
\* client call, or to its return when the key of the provider is missing
AnalyzeFlashCall ==
    /\ rpc \in {"idle", "returned"}
    /\ LET provider == SelectProvider(rcfg, local_available, rtext)
           client == FirstClient(rcfg, provider)
       IN  /\ rsel' = [op |-> "select", text |-> rtext, live |-> local_available,
                       provider |-> provider]
           /\ IF client = "NoKey"
              THEN /\ rcalls' = <<>>
                   /\ rret' = Err("NoKey")
                   /\ rpc' = "returned"
              ELSE /\ rcalls' = <<[client |-> client, for |-> provider.kind]>>
                   /\ rret' = NoCall
                   /\ rpc' = "first_call"
    /\ rfirst' = "none"
    /\ UNCHANGED <<pipevars, extvars, bufvars, ctxvars, busvars, rcfg, local_available, rtext>>

\* The first client call returns: analyze_flash from line 320 to its return,
\* or to the await of the call analyze_with_provider makes
FirstCallReturns ==
    /\ rpc = "first_call"
    /\ \E ok \in BOOLEAN :
        LET cloud == BestCloudProvider(rcfg)
            client == FallbackClient(rcfg, cloud)
        IN  /\ rfirst' = IF ok THEN "ok" ELSE "err"
            /\ IF /\ ~ok
                  /\ rsel.provider.kind = "Local"
                  /\ rcfg.strategy \in FallbackStrategies
                  /\ cloud.kind # "Local"
               THEN IF client \in {"NoKey", "Unsupported"}
                    THEN /\ rret' = Err(client)
                         /\ rpc' = "returned"
                         /\ UNCHANGED rcalls
                    ELSE /\ rcalls' = Append(rcalls, [client |-> client, for |-> cloud.kind])
                         /\ rpc' = "fallback_call"
                         /\ UNCHANGED rret
               ELSE /\ rret' = IF ok THEN Ok(rsel.provider) ELSE Err("call")
                    /\ rpc' = "returned"
                    /\ UNCHANGED rcalls
    /\ UNCHANGED <<pipevars, extvars, bufvars, ctxvars, busvars, rcfg, local_available, rtext, rsel>>

\* The call of analyze_with_provider returns
FallbackCallReturns ==
    /\ rpc = "fallback_call"
    /\ \E ok \in BOOLEAN :
        rret' = IF ok THEN Ok(BestCloudProvider(rcfg)) ELSE Err("call")
    /\ rpc' = "returned"
    /\ UNCHANGED <<pipevars, extvars, bufvars, ctxvars, busvars, rcfg, local_available, rtext, rsel,
                   rcalls, rfirst>>

RouterNext ==
    \/ CheckLocal
    \/ SelectProviderCall
    \/ AnalyzeFlashCall
    \/ FirstCallReturns
    \/ FallbackCallReturns

RouterSpec == RouterInit /\ [][RouterNext]_vars

----------------------------------------------------------------------------
(* The Flash step of the transcript task on its own (brain/pipeline.rs,    *)
(* 209-218): what the task does with the answer of run_flash_analysis. The *)
(* Deep request that follows a successful answer is part of Spec.          *)

\* A Bullet: its text and its priority; a backend answers with any list of them
Bullet(point, priority) == [point |-> point, priority |-> priority]
BulletLists ==
    UNION {[1..n -> 1..MaxPriority] : n \in 0..MaxBullets}
FlashAnalysisOf(prios) ==
    [bullets |-> [i \in DOMAIN prios |-> Bullet(i, prios[i])]]

FlashInit == PipelineIdle /\ CoreIdle /\ FlashIdle /\ StreamIdle /\ CxIdle /\ PcmIdle /\ TokIdle /\ LifeIdle

\* `if let Ok(flash) = flash_result`: the answer is stored and sent as it came
FlashResultOk ==
    /\ fa_calls < MaxFlash
    /\ \E prios \in BulletLists :
        LET flash == FlashAnalysisOf(prios) IN
        /\ fa_flash' = flash
        /\ fa_events' = Append(fa_events, [type |-> "FlashReady", flash |-> flash])
    /\ fa_calls' = fa_calls + 1
    /\ UNCHANGED <<pipevars, corevars, tokvars, lifevars, streamvars, cxvars, pcmvars>>

\* flash_result is Err: the `if let` has no else branch
FlashResultErr ==
    /\ fa_calls < MaxFlash
    /\ fa_calls' = fa_calls + 1
    /\ UNCHANGED <<pipevars, corevars, tokvars, lifevars, streamvars, cxvars, pcmvars, fa_flash, fa_events>>

FlashNext == FlashResultOk \/ FlashResultErr

FlashSpec == FlashInit /\ [][FlashNext]_vars

----------------------------------------------------------------------------
(* One Deep stream on its own: the task ClaudeDeep::analyze_streaming      *)
(* spawns (deep/claude.rs, 90-147; GPT4oDeep is the same) and the loop of  *)
(* run_deep_analysis that reads its chunks (brain/pipeline.rs, 309-332).   *)

\* A text delta is the header line "## Question to Ask Them", a complete line
\* of other text, or text of another section. A line right after the header is
\* the question.
Pieces == {"body", "header", "line"}
Chunk(kind, text) == [kind |-> kind, text |-> text]

\* run_deep_analysis up to its loop: deep_streaming = true, deep_content
\* cleared, the stream opened
StreamInit ==
    /\ PipelineIdle /\ CoreIdle /\ FlashIdle /\ CxIdle /\ PcmIdle /\ TokIdle /\ LifeIdle
    /\ ds_prod = "running"
    /\ ds_text = <<>>
    /\ ds_ch = <<>>
    /\ ds_pc = "recv"
    /\ ds_state = [deep_content |-> <<>>, question_to_ask |-> "None",
                   deep_streaming |-> TRUE]
    /\ ds_events = <<>>

\* an SSE event with a text delta: tx.send(StreamChunk::Content(text))
DsDelta ==
    /\ ds_prod = "running"
    /\ Len(ds_text) < MaxDeltas
    /\ \E piece \in Pieces :
        /\ ds_text' = Append(ds_text, piece)
        /\ ds_ch' = Append(ds_ch, Chunk("Content", piece))
    /\ UNCHANGED <<pipevars, corevars, tokvars, lifevars, flashvars, cxvars, pcmvars, ds_prod, ds_pc, ds_state, ds_events>>

\* message_stop or the end of the byte stream: tx.send(StreamChunk::Done)
DsStop ==
    /\ ds_prod = "running"
    /\ ds_ch' = Append(ds_ch, Chunk("Done", ""))
    /\ ds_prod' = "returned"
    /\ UNCHANGED <<pipevars, corevars, tokvars, lifevars, flashvars, cxvars, pcmvars, ds_text, ds_pc, ds_state, ds_events>>

\* the byte stream fails: tx.send(StreamChunk::Error(e))
DsError ==
    /\ ds_prod = "running"
    /\ ds_ch' = Append(ds_ch, Chunk("Error", ""))
    /\ ds_prod' = "returned"
    /\ UNCHANGED <<pipevars, corevars, tokvars, lifevars, flashvars, cxvars, pcmvars, ds_text, ds_pc, ds_state, ds_events>>

\* one turn of `while let Some(chunk) = stream.receiver.recv().await`
DsRecv ==
    /\ ds_pc = "recv"
    /\ ds_ch # <<>>
    /\ LET chunk == Head(ds_ch) IN
        CASE chunk.kind = "Content" ->
                /\ ds_state' = [ds_state EXCEPT !.deep_content = Append(@, chunk.text)]
                /\ ds_events' = Append(ds_events, [type |-> "DeepChunk", text |-> chunk.text])
                /\ ds_pc' = ds_pc
          [] chunk.kind = "Question" ->
                /\ ds_state' = [ds_state EXCEPT !.question_to_ask = chunk.text]
                /\ ds_events' = Append(ds_events, [type |-> "QuestionReady", text |-> chunk.text])
                /\ ds_pc' = ds_pc
          [] chunk.kind = "Done" ->
                /\ ds_state' = [ds_state EXCEPT !.deep_streaming = FALSE]
                /\ ds_events' = Append(ds_events, [type |-> "DeepComplete", text |-> ""])
                /\ ds_pc' = "returned"
          [] chunk.kind = "Error" ->
                /\ ds_state' = [ds_state EXCEPT !.deep_streaming = FALSE]
                /\ ds_events' = Append(ds_events, [type |-> "Error", text |-> ""])
                /\ ds_pc' = "returned"
          [] OTHER -> UNCHANGED <<ds_state, ds_events, ds_pc>>
    /\ ds_ch' = Tail(ds_ch)
    /\ UNCHANGED <<pipevars, corevars, tokvars, lifevars, flashvars, cxvars, pcmvars, ds_prod, ds_text>>

StreamNext == DsDelta \/ DsStop \/ DsError \/ DsRecv

StreamSpec == StreamInit /\ [][StreamNext]_vars

----------------------------------------------------------------------------
(* Complexity::from_text on its own (brain/hybrid_router.rs, 32-85): one   *)
(* call on any text.                                                        *)

\* Some of the keywords of from_text and a word that is none of them
ComplexKeywords == {"why", "explain"}
SimpleKeywords == {"when"}
Vocabulary == ComplexKeywords \cup SimpleKeywords \cup {"hello"}

\* A text: its first words, whether it is written in capitals, the number of
\* question marks in it, and the number of further words, none a keyword.
Utterances ==
    [words : UNION {[1..n -> Vocabulary] : n \in 0..MaxWords},
     upper : BOOLEAN, qmarks : {0, 1, 2}, pad : {0, 14, 29}]

\* text.to_lowercase()
ToLowercase(text) == [text EXCEPT !.upper = FALSE]
\* text.contains(keyword), the keyword being a lowercase literal
Contains(text, keyword) == ~text.upper /\ keyword \in Range(text.words)
\* text.split_whitespace().count()
WordCount(text) == Len(text.words) + text.pad

\* what from_text measures on its text, case-sensitive variant first
Measure_CaseSensitive(text) ==
    [complex |-> Cardinality({k \in ComplexKeywords : Contains(text, k)}),
     simple |-> Cardinality({k \in SimpleKeywords : Contains(text, k)}),
     words |-> WordCount(text),
     qmarks |-> text.qmarks]
Measure(text) ==
    LET text_lower == ToLowercase(text) IN
    [complex |-> Cardinality({k \in ComplexKeywords : Contains(text_lower, k)}),
     simple |-> Cardinality({k \in SimpleKeywords : Contains(text_lower, k)}),
     words |-> WordCount(text),
     qmarks |-> text.qmarks]

CxInit ==
    /\ PipelineIdle /\ CoreIdle /\ FlashIdle /\ StreamIdle /\ PcmIdle /\ TokIdle /\ LifeIdle
    /\ cx_text \in Utterances
    /\ cx_ret = "none"

\* Complexity::from_text(text)
CxFromText ==
    /\ cx_ret = "none"
    /\ cx_ret' = FromText(Measure(cx_text))
    /\ UNCHANGED <<pipevars, corevars, tokvars, lifevars, flashvars, streamvars, pcmvars, cx_text>>

CxNext == CxFromText

CxSpec == CxInit /\ [][CxNext]_vars

----------------------------------------------------------------------------
(* f32_to_pcm_bytes on its own (capture/audio.rs, 219-239): one call on    *)
(* any frame of samples.                                                    *)

\* An f32 sample is sign x m x 2^e with m = 0 or a 24-bit significand
\* (2^23 <= m < 2^24). Numbers wider than 31 bits are kept as two limbs,
\* hi x Limb + lo.
Limb == 2 ^ 12
Significands == {0, 2 ^ 23, 2 ^ 23 + 1, 2 ^ 23 + 255, 3 * (2 ^ 22), 2 ^ 24 - 1}
Exponents == {-38, -30, -24, -23, -22}
Samples == [neg : BOOLEAN, m : Significands, e : Exponents]
F32(neg, m, e) == [neg |-> neg, m |-> m, e |-> e]

\* |s| > 1.0
AboveOne(s) == s.m # 0 /\ (s.e > -23 \/ (s.e = -23 /\ s.m > 2 ^ 23))
\* s.clamp(-1.0, 1.0)
Clamp(s) == IF AboveOne(s) THEN F32(s.neg, 2 ^ 23, -23) ELSE s

\* m x 32767 as limbs: [hi, lo] with lo < Limb
Times32767(m) ==
    LET a == m \div Limb
        b == m % Limb
    IN  [hi |-> a * 32767 + ((b * 32767) \div Limb), lo |-> (b * 32767) % Limb]

\* `clamped * 32767.0`: the exact product rounded to 24 significant bits, ties
\* to even; returned as q x 2^t
TimesScale(s) ==
    LET p == Times32767(s.m)
        k == IF p.hi >= 2 ^ 26 THEN 3 ELSE 2     \* bits of hi that are dropped
        q == p.hi \div (2 ^ k)
        rem == (p.hi % (2 ^ k)) * Limb + p.lo
        half == (2 ^ k) * (Limb \div 2)
        up == rem > half \/ (rem = half /\ q % 2 = 1)
    IN  [q |-> IF up THEN q + 1 ELSE q, t |-> s.e + k + 12]

\* `as i16` on a value of magnitude at most 32767: truncation toward zero
AsI16(neg, x) ==
    LET mag == IF x.q = 0 THEN 0
               ELSE IF x.t >= 0 THEN x.q * (2 ^ x.t)
               ELSE IF -x.t > 24 THEN 0
               ELSE x.q \div (2 ^ (-x.t))
    IN  IF neg THEN -mag ELSE mag

\* f32_to_i16, one sample
ToI16(s) == AsI16(s.neg, TimesScale(Clamp(s)))
F32ToI16(samples) == [i \in DOMAIN samples |-> ToI16(samples[i])]

\* i16::to_le_bytes: two's complement, low byte first
ToLeBytes(v) ==
    LET u == IF v < 0 THEN v + 65536 ELSE v IN <<u % 256, u \div 256>>
\* i16::from_le_bytes
FromLeBytes(b) ==
    LET u == b[1] + 256 * b[2] IN IF u >= 32768 THEN u - 65536 ELSE u

\* f32_to_pcm_bytes, big-endian variant first
F32ToPcmBytes_BigEndian(samples) ==
    LET v == F32ToI16(samples) IN
    [j \in 1..(2 * Len(v)) |-> ToLeBytes(v[(j + 1) \div 2])[IF j % 2 = 1 THEN 2 ELSE 1]]
F32ToPcmBytes(samples) ==
    LET v == F32ToI16(samples) IN
    [j \in 1..(2 * Len(v)) |-> ToLeBytes(v[(j + 1) \div 2])[IF j % 2 = 1 THEN 1 ELSE 2]]

PcmInit ==
    /\ PipelineIdle /\ CoreIdle /\ FlashIdle /\ StreamIdle /\ CxIdle /\ TokIdle /\ LifeIdle
    /\ pcm_in \in UNION {[1..n -> Samples] : n \in 0..MaxSamples}
    /\ pcm_out = <<>>
    /\ pcm_done = FALSE

\* f32_to_pcm_bytes(&samples)
PcmConvert ==
    /\ ~pcm_done
    /\ pcm_out' = F32ToPcmBytes(pcm_in)
    /\ pcm_done' = TRUE
    /\ UNCHANGED <<pipevars, corevars, tokvars, lifevars, flashvars, streamvars, cxvars, pcm_in>>

PcmNext == PcmConvert

PcmSpec == PcmInit /\ [][PcmNext]_vars

----------------------------------------------------------------------------
(* The refresh tokens of the API (apps/api/src/auth/tokens.rs) and the     *)
(* handlers that use them (apps/api/src/routes/auth.rs). A handler is one  *)
(* step, except refresh: rotate_refresh_token runs verify_refresh_token    *)
(* and create_refresh_token as two statements on the pool, and other       *)
(* requests can be served between them.                                    *)

\* hash_token: SHA256, taken as collision-free
HashToken(token) == [sha256 |-> token]

Okay(user, version) == [ok |-> TRUE, user |-> user, version |-> version]
Rejected(err) == [ok |-> FALSE, err |-> err, token |-> 0]
Rotated(token) == [ok |-> TRUE, err |-> "none", token |-> token]

\* verify_refresh_token on tables rows and versions: the SELECT joins the row
\* of that hash and device with its user
VerifyRefreshToken(rows, versions, token, device) ==
    LET found == {u \in Users : rows[<<u, device>>].present
                                /\ rows[<<u, device>>].hash = HashToken(token)}
    IN  IF found = {} THEN Rejected("InvalidToken")
        ELSE LET u == CHOOSE x \in found : TRUE
                 record == rows[<<u, device>>]
             IN  IF record.expired THEN Rejected("TokenExpired")
                 ELSE IF record.version # versions[u] THEN Rejected("InvalidToken")
                 ELSE Okay(u, record.version)

\* create_refresh_token: the upsert on (user_id, device_id); inserting variant
\* first
CreateRefreshToken_KeepOld(rows, user, device, token, version) ==
    IF rows[<<user, device>>].present THEN rows
    ELSE [rows EXCEPT ![<<user, device>>] =
            [present |-> TRUE, hash |-> HashToken(token), version |-> version,
             expired |-> FALSE]]
CreateRefreshToken(rows, user, device, token, version) ==
    [rows EXCEPT ![<<user, device>>] =
        [present |-> TRUE, hash |-> HashToken(token), version |-> version,
         expired |-> FALSE]]

TokInit == PipelineIdle /\ CoreIdle /\ FlashIdle /\ StreamIdle /\ CxIdle /\ PcmIdle /\ TokIdle /\ LifeIdle

\* no refresh request is between its two statements
Quiet == \A p \in RefreshRequests : tk_req[p].pc # "verified"

\* login: create_refresh_token with the user's current token_version
TkLogin(u, d) ==
    /\ tk_issued < MaxTokens
    /\ tk_issued' = tk_issued + 1
    /\ tk_rows' = CreateRefreshToken(tk_rows, u, d, tk_issued + 1, tk_version[u])
    /\ tk_last' = 0
    /\ UNCHANGED <<pipevars, corevars, flashvars, streamvars, cxvars, pcmvars, lifevars,
                   tk_version, tk_req>>

\* refresh, first statement: verify_refresh_token(old_token, device_id); on Err
\* the `?` returns it
TkRefreshVerify(p, token, d) ==
    /\ tk_req[p].pc = "idle"
    /\ \A q \in RefreshRequests : q < p => tk_req[q].pc # "idle"   \* p-th to arrive
    /\ LET ret == VerifyRefreshToken(tk_rows, tk_version, token, d)
           with == {q \in RefreshRequests : tk_req[q].pc = "verified"}
       IN  IF ret.ok
           THEN /\ tk_req' = [tk_req EXCEPT ![p] =
                        [pc |-> "verified", token |-> token, device |-> d,
                         user |-> ret.user, version |-> ret.version, ret |-> NoRet,
                         with |-> with]]
                /\ tk_last' = 0
           ELSE /\ tk_req' = [tk_req EXCEPT ![p] =
                        [pc |-> "done", token |-> token, device |-> d, user |-> 0,
                         version |-> 0, ret |-> ret, with |-> with]]
                /\ tk_last' = p
    /\ UNCHANGED <<pipevars, corevars, flashvars, streamvars, cxvars, pcmvars, lifevars,
                   tk_version, tk_rows, tk_issued>>

\* refresh, second statement: create_refresh_token for the verified user and
\* device, then the handler returns the new token
TkRefreshCreate(p) ==
    /\ tk_req[p].pc = "verified"
    /\ tk_issued < MaxTokens
    /\ tk_issued' = tk_issued + 1
    /\ tk_rows' = CreateRefreshToken(tk_rows, tk_req[p].user, tk_req[p].device,
                                     tk_issued + 1, tk_req[p].version)
    /\ tk_req' = [tk_req EXCEPT ![p].pc = "done", ![p].ret = Rotated(tk_issued + 1)]
    /\ tk_last' = p
    /\ UNCHANGED <<pipevars, corevars, flashvars, streamvars, cxvars, pcmvars, lifevars,
                   tk_version>>

\* logout: revoke_refresh_token(user, device)
TkLogout(u, d) ==
    /\ tk_rows[<<u, d>>].present
    /\ tk_rows' = [tk_rows EXCEPT ![<<u, d>>] = NoRow]
    /\ tk_last' = 0
    /\ UNCHANGED <<pipevars, corevars, flashvars, streamvars, cxvars, pcmvars, lifevars,
                   tk_version, tk_issued, tk_req>>

\* logout_all: revoke_all_refresh_tokens(user)
TkLogoutAll(u) ==
    /\ tk_version[u] < MaxLogoutAll
    /\ tk_version' = [tk_version EXCEPT ![u] = @ + 1]
    /\ tk_rows' = [k \in Users \X Devices |-> IF k[1] = u THEN NoRow ELSE tk_rows[k]]
    /\ tk_last' = 0
    /\ UNCHANGED <<pipevars, corevars, flashvars, streamvars, cxvars, pcmvars, lifevars,
                   tk_issued, tk_req>>

\* time passes beyond the expires_at of a row
TkExpire(u, d) ==
    /\ tk_rows[<<u, d>>].present
    /\ ~tk_rows[<<u, d>>].expired
    /\ tk_rows' = [tk_rows EXCEPT ![<<u, d>>].expired = TRUE]
    /\ tk_last' = 0
    /\ UNCHANGED <<pipevars, corevars, flashvars, streamvars, cxvars, pcmvars, lifevars,
                   tk_version, tk_issued, tk_req>>

\* cleanup_expired_tokens
TkCleanup ==
    /\ \E k \in Users \X Devices : tk_rows[k].present /\ tk_rows[k].expired
    /\ tk_rows' = [k \in Users \X Devices |->
                    IF tk_rows[k].present /\ tk_rows[k].expired THEN NoRow ELSE tk_rows[k]]
    /\ tk_last' = 0
    /\ UNCHANGED <<pipevars, corevars, flashvars, streamvars, cxvars, pcmvars, lifevars,
                   tk_version, tk_issued, tk_req>>

\* a request presents any token issued so far
Presented == 1..tk_issued

TkStart ==
    \/ \E u \in Users, d \in Devices : TkLogin(u, d)
    \/ \E p \in RefreshRequests, d \in Devices : \E token \in Presented :
        TkRefreshVerify(p, token, d)
    \/ \E u \in Users, d \in Devices : TkLogout(u, d)
    \/ \E u \in Users : TkLogoutAll(u)
    \/ \E u \in Users, d \in Devices : TkExpire(u, d)
    \/ TkCleanup
TkFinish == \E p \in RefreshRequests : TkRefreshCreate(p)

\* requests served one after the other
TokSeqNext == (Quiet /\ TkStart) \/ TkFinish
TokSeqSpec == TokInit /\ [][TokSeqNext]_vars

\* requests served concurrently
TokNext == TkStart \/ TkFinish
TokSpec == TokInit /\ [][TokNext]_vars

----------------------------------------------------------------------------
(* The lifecycle of a CopilotPipeline and its context store                *)
(* (brain/pipeline.rs, 133-256; brain/context.rs): start() and stop()      *)
(* calls, the segments its transcript tasks handle, and calls of the       *)
(* store's public methods. The store is ctx; start() and stop() are        *)
(* recorded in ctx_call and ctx_before like the calls on the store.        *)

LifecycleOps == {"start", "stop"}

LifeInit == PipelineIdle /\ CoreIdle /\ ExtIdle

\* what a start() or stop() call does to the history variables
LcCalled(op) ==
    /\ ctx_call' = [op |-> op]
    /\ ctx_before' = ctx
    /\ lc_kept' = IF ctx_call.op \in LifecycleOps THEN lc_kept ELSE ctx
    /\ UNCHANGED <<pipevars, bufvars, busvars, routevars, flashvars, streamvars, cxvars,
                   pcmvars, tokvars, ctx_calls, ctx_added>>

\* start() that returns Ok after spawning the tasks
LcStart ==
    /\ lc_starts < MaxStarts
    /\ ~lc_running
    /\ lc_running' = TRUE
    /\ lc_starts' = lc_starts + 1
    /\ UNCHANGED <<ctx, lc_buffer, lc_stops, lc_segs>>
    /\ LcCalled("start")

\* start() that returns at the is_running test, or with Err
LcStartReturnsEarly ==
    /\ UNCHANGED <<ctx, lc_running, lc_buffer, lc_starts, lc_stops, lc_segs>>
    /\ LcCalled("start")

\* stop(), variant that also clears the store first
LcStop_ClearsContext ==
    /\ lc_stops < MaxStops
    /\ lc_running' = FALSE
    /\ lc_buffer' = BufferClear
    /\ lc_stops' = lc_stops + 1
    /\ ctx' = [ctx EXCEPT !.turns = <<>>]
    /\ UNCHANGED <<lc_starts, lc_segs>>
    /\ LcCalled("stop")
LcStop ==
    /\ lc_stops < MaxStops
    /\ lc_running' = FALSE
    /\ lc_buffer' = BufferClear
    /\ lc_stops' = lc_stops + 1
    /\ UNCHANGED <<ctx, lc_starts, lc_segs>>
    /\ LcCalled("stop")

\* a transcript task handles a segment: buffer.add, and add_their_turn for a
\* final segment with text; the task may outlive stop()
LcTaskSegment ==
    /\ lc_starts > 0
    /\ lc_segs < MaxSegs
    /\ ctx_calls < MaxCtxCalls
    /\ lc_segs' = lc_segs + 1
    /\ \E final \in BOOLEAN :
        LET seg == [id |-> lc_segs + 1, is_final |-> final, text |-> "a"]
            turn == [speaker |-> "Them", text |-> seg.text, intent |-> "None",
                     id |-> ctx_calls + 1]
        IN  /\ lc_buffer' = BufferAdd(lc_buffer, seg)
            /\ IF TriggersAnalysis(seg)
               THEN /\ ctx' = [ctx EXCEPT !.turns = AddTurnN(@, turn, ctx.max_turns)]
                    /\ ctx_added' = Append(ctx_added, turn)
                    /\ ctx_calls' = ctx_calls + 1
                    /\ ctx_call' = [op |-> "add_their_turn", turn |-> turn]
                    /\ ctx_before' = ctx
               ELSE /\ ctx_call' = [op |-> "segment"]
                    /\ ctx_before' = ctx
                    /\ UNCHANGED <<ctx, ctx_added, ctx_calls>>
    /\ UNCHANGED <<pipevars, bufvars, busvars, routevars, flashvars, streamvars, cxvars,
                   pcmvars, tokvars, lc_running, lc_starts, lc_stops, lc_kept>>

LifeNext ==
    \/ LcStart
    \/ LcStartReturnsEarly
    \/ LcStop
    \/ LcTaskSegment
    \/ CtxNext

LifeSpec == LifeInit /\ [][LifeNext]_vars

----------------------------------------------------------------------------
(* Properties *)

EventsOf(r) == {i \in DOMAIN events : events[i].sess = r.sess /\ events[i].seg = r.seg}
HasEvent(t, r) == \E i \in DOMAIN events : events[i] = Ev(t, r.sess, r.seg)
FlashPending(s) == {r \in flash_inflight : r.sess = s}
DeepPending(s) == {r \in DOMAIN deep : r.sess = s}

\* C1: when the Flash request for a final F2 is started and F2 was delivered
\* by the STT while the Flash/Deep request of an earlier final F1 was in
\* flight, the F1 request was cancelled: it did not run to its end first.
C1_NewerFinalCancelsEarlier ==
    \A r \in flash_inflight :
        msgs[r.seg].during # NoSeg => msgs[r.seg].during \notin finished

\* C2: in every reachable state, every session has at most one Flash request
\* pending and at most one Deep request pending.
C2_AtMostOneInFlight ==
    \A s \in Sessions :
        /\ Cardinality(FlashPending(s)) <= 1
        /\ Cardinality(DeepPending(s)) <= 1

\* A request is pending, another final segment of the same session waits in
\* the transcript channel, and stop() has been called.
C2_Witness ==
    \E s \in Sessions :
        /\ FlashPending(s) \cup DeepPending(s) # {}
        /\ \E i \in DOMAIN transcript_q[s] : transcript_q[s][i].is_final
        /\ stop_calls > 0

\* C3: every Deep request whose run_deep_analysis has returned has exactly
\* one terminal event on the bus, DeepComplete if the stream ended with Done
\* and Error (and no DeepComplete) if it ended with an error, and no
\* DeepChunk of the request follows the terminal event; a Deep request still
\* streaming has no terminal event yet.
C3_OneTerminalEvent ==
    \A r \in Range(deep_log) :
        LET term == {i \in EventsOf(r) : events[i].type \in {"DeepComplete", "Error"}}
        IN  IF r \in DOMAIN deep
            THEN term = {}
            ELSE /\ r \in DOMAIN deep_end
                 /\ Cardinality(term) = 1
                 /\ \A i \in term :
                        /\ events[i].type = IF deep_end[r] = "Done" THEN "DeepComplete"
                                                                   ELSE "Error"
                        /\ \A j \in EventsOf(r) : j > i => events[j].type # "DeepChunk"

\* A Deep stream delivered a chunk and then ended with Error, and its
\* run_deep_analysis has returned.
C3_Witness ==
    \E r \in Range(deep_log) :
        /\ r \notin DOMAIN deep
        /\ r \in DOMAIN deep_end
        /\ deep_end[r] = "Error"
        /\ HasEvent("DeepChunk", r)

\* C4: when stop() is called while a Deep stream is delivering chunks, no
\* DeepChunk, DeepComplete or Error of that stream is emitted after the
\* Stopped event of that stop().
C4_NoDeepEventAfterStop ==
    \A i, j \in DOMAIN events :
        (/\ i < j
         /\ events[i].type = "Stopped"
         /\ events[i].seg # NoSeg
         /\ events[j].sess = events[i].sess
         /\ events[j].seg = events[i].seg)
        => events[j].type \notin {"DeepChunk", "DeepComplete", "Error"}

\* A Flash request that was answered with an error: its analysis ended
\* without run_deep_analysis being called.
FlashFailed(r) == r \in Range(flash_log) /\ r.seg \in finished /\ r \notin Range(deep_log)

\* C5: when the Flash request of a final segment has failed, an Error event
\* of that segment is on the bus, no FlashReady of it is, no Deep request
\* is open for it, and the session is still running unless stop() was called.
C5_FlashFailureEmitsError ==
    \A r \in Range(flash_log) :
        FlashFailed(r) =>
            /\ HasEvent("Error", r)
            /\ ~HasEvent("FlashReady", r)
            /\ r \notin DOMAIN deep
            /\ (stop_calls = 0 => is_running)

\* Received(k): the transcript task has taken message k from the channel.
Received(k) == HasEvent("Transcript", Req(msgs[k].sess, k))
Count(seq, x) == Cardinality({i \in DOMAIN seq : seq[i] = x})
TurnsOf(k) == {i \in DOMAIN turns : turns[i].seg = k /\ turns[i].speaker = "Them"}

\* C6: for every segment the transcript task has received: if it is final
\* and non-empty, exactly one 'their turn' was appended for it and exactly
\* one Flash request was issued for it, and a Deep request was issued for it
\* at most once and only after its FlashReady was emitted; if it is interim
\* or empty, no turn was appended and no Flash or Deep request was issued.
\* A segment not yet received has caused none of these.
C6_TriggerOncePerFinal ==
    \A k \in DOMAIN msgs :
        LET r == Req(msgs[k].sess, k) IN
        IF Received(k) /\ msgs[k].is_final /\ msgs[k].text # ""
        THEN /\ Cardinality(TurnsOf(k)) = 1
             /\ Count(flash_log, r) = 1
             /\ Count(deep_log, r) <= 1
             /\ Count(deep_log, r) = 1 =>
                    /\ HasEvent("FlashReady", r)
                    /\ r \notin flash_inflight
        ELSE /\ TurnsOf(k) = {}
             /\ Count(flash_log, r) = 0
             /\ Count(deep_log, r) = 0

\* The task has received an interim segment and a final segment, and the
\* Deep request of the final one has been issued.
C6_Witness ==
    \E k1, k2 \in DOMAIN msgs :
        /\ Received(k1) /\ ~msgs[k1].is_final
        /\ Received(k2) /\ msgs[k2].is_final
        /\ Count(deep_log, Req(msgs[k2].sess, k2)) = 1

\* C7: within a session, no FlashReady, DeepChunk or DeepComplete of a final
\* F1 is emitted after any event (Transcript included) of a later segment F2.
C7_NewestWins ==
    \A i, j \in DOMAIN events :
        (/\ i < j
         /\ events[i].seg # NoSeg
         /\ events[j].seg # NoSeg
         /\ events[i].sess = events[j].sess
         /\ events[j].type \in {"FlashReady", "DeepChunk", "DeepComplete"})
        => events[j].seg >= events[i].seg

\* Final F2 arrived while the Flash/Deep of F1 was in flight; F1's FlashReady
\* and DeepComplete and F2's Transcript have all been emitted.
C7_Witness ==
    \E k2 \in DOMAIN msgs :
        LET k1 == msgs[k2].during IN
        /\ k1 # NoSeg
        /\ msgs[k2].is_final /\ msgs[k2].text # ""
        /\ Received(k2)
        /\ HasEvent("FlashReady", Req(msgs[k2].sess, k1))
        /\ HasEvent("DeepComplete", Req(msgs[k2].sess, k1))

\* C8: a start() call that fails leaves is_running false and emits exactly
\* one event, an Error (so no Started).
C8_StartFailureEmitsError ==
    [][(last_start' = "err" /\ last_start # "err") =>
            /\ ~is_running'
            /\ Len(events') = Len(events) + 1
            /\ events'[Len(events')].type = "Error"]_vars

\* C9: once stop() has been called and until the next successful start(),
\* the pipeline is idle, the latest lifecycle event is the Stopped of that
\* stop() and the transcript buffer is empty.
C9_StoppedBufferStaysEmpty ==
    (stop_calls > 0 /\ ~is_running) =>
        /\ BufferIsEmpty(buffer)
        /\ \E i \in DOMAIN events :
            /\ events[i].type = "Stopped"
            /\ \A j \in DOMAIN events : j > i => events[j].type \notin {"Started", "Stopped"}

\* stop() has signalled session s.
Signalled(s) == shutdown_ch[s] \in {"msg", "rx_dropped"}

\* Every task spawned for session s has ended.
Terminated(s) ==
    /\ task_pc[s] = "done"
    /\ audio_fwd[s] = "done"
    /\ stt_send[s] = "done"
    /\ stt_recv[s] = "done"
    /\ \A r \in DeepPending(s) : deep[r].prod = "done"

\* C10: after stop(), every task spawned for the session eventually ends,
\* also when a Flash or Deep call is in flight at the time of stop().
C10_TasksEndAfterStop == \A s \in Sessions : Signalled(s) ~> Terminated(s)

\* Session s is the running session.
Running(s) == is_running /\ shutdown_tx = s

\* stop() has ended session s.
StoppedBy(s) == \E i \in DOMAIN events : events[i].type = "Stopped" /\ events[i].sess = s

\* An Error event of session s that is not the Error of a Deep request.
SessionError(i, s) == events[i] = Ev("Error", s, NoSeg)

\* C11: when the STT connection of the running session fails, the session
\* stays running until stop() is called, and an Error event of the session
\* is eventually emitted on the bus.
C11_SttErrorReported ==
    /\ [](\A s \in stt_err : ~StoppedBy(s) => Running(s))
    /\ \A s \in Sessions :
        (s \in stt_err) ~> (\E i \in DOMAIN events : SessionError(i, s))

\* The audio error of session s has been handled: an Error event and after
\* it the Stopped event of the session are on the bus, the session is not
\* running and no event of the session follows the Stopped.
AudioErrorHandled(s) ==
    /\ ~Running(s)
    /\ \E i, j \in DOMAIN events :
        /\ i < j
        /\ SessionError(i, s)
        /\ events[j].type = "Stopped" /\ events[j].sess = s
        /\ \A k \in DOMAIN events : k > j => events[k].sess # s

\* C12: when the audio source reports an error while the session is running,
\* Error and then Stopped are eventually emitted, the session ends, and no
\* event of the session is emitted afterwards.
C12_AudioErrorStopsSession ==
    \A s \in Sessions : (s \in audio_err) ~> [](AudioErrorHandled(s))

\* The last n elements of a sequence, all of them when it has fewer.
LastN(seq, n) == IF Len(seq) > n THEN SubSeq(seq, Len(seq) - n + 1, Len(seq)) ELSE seq

\* C13: the buffer holds at most one interim segment; after add(interim) the
\* interim slot holds the new segment and the finals are those before the
\* call; after add(final) the interim slot is empty and the new segment is
\* the last of the finals, behind finals that were there before the call.
C13_SingleInterimSlot ==
    /\ Len(tb.interim) <= 1
    /\ (tb_call.op = "add" /\ ~tb_call.seg.is_final) =>
            /\ tb.interim = <<tb_call.seg>>
            /\ tb.segments = tb_before.segments
    /\ (tb_call.op = "add" /\ tb_call.seg.is_final) =>
            /\ tb.interim = <<>>
            /\ tb.segments # <<>>
            /\ tb.segments[Len(tb.segments)] = tb_call.seg
            /\ SubSeq(tb.segments, 1, Len(tb.segments) - 1)
                    = LastN(tb_before.segments, Len(tb.segments) - 1)

\* A final segment was added while an interim was in the slot and finals
\* were already held.
C13_Witness ==
    /\ tb_call.op = "add" /\ tb_call.seg.is_final
    /\ tb_before.interim # <<>>
    /\ tb_before.segments # <<>>

\* C14: the finals held are the last min(k, N) of the k finals added since
\* the last clear(), in arrival order; they are never more than N.
C14_FifoEviction ==
    /\ Len(tb.segments) <= tb_max
    /\ tb.segments = LastN(tb_finals, tb_max)

\* More finals than the bound were added since the last clear(), which
\* followed earlier adds: the oldest ones have been evicted.
C14_Witness ==
    /\ Len(tb_finals) > tb_max
    /\ tb_adds > Len(tb_finals)
    /\ tb_call.op = "add" /\ tb_call.seg.is_final

\* ConversationContext::turn_count
TurnCount(c) == Len(c.turns)

\* C15: turn_count() <= max_turns, the stored turns are the most recently
\* added ones in insertion order, and a call that adds a turn leaves the key
\* facts, the objections and the mode prompt as they were.
C15_ContextFifo ==
    /\ TurnCount(ctx) <= ctx.max_turns
    /\ ctx.turns = LastN(ctx_added, ctx.max_turns)
    /\ ctx_call.op \in {"add_their_turn", "add_my_turn"} =>
            /\ ctx.key_facts = ctx_before.key_facts
            /\ ctx.objections_raised = ctx_before.objections_raised
            /\ ctx.mode_context = ctx_before.mode_context

\* A turn was added to a full store that holds a key fact, an objection or a
\* mode prompt: the oldest turn has been evicted.
C15_Witness ==
    /\ ctx_call.op \in {"add_their_turn", "add_my_turn"}
    /\ ctx.max_turns > 0
    /\ Len(ctx_added) > ctx.max_turns
    /\ \/ ctx.key_facts # <<>>
       \/ ctx.objections_raised # <<>>
       \/ ctx.mode_context # ""

\* C16: the runtime's event listener receives events in emission order;
\* while it has lost none it has received every event before its position;
\* and every event sent is eventually either received by it or among the
\* events it lost because the ring overwrote them before it read them.
C16_ListenerSeesEveryLaterEvent ==
    /\ [](\A i, j \in DOMAIN rt_got : i < j => rt_got[i] < rt_got[j])
    /\ [](rt_lost = {} => rt_got = [i \in 1..(rt_next - 1) |-> i])
    /\ \A e \in 1..MaxSends :
        (Len(bus_log) >= e) ~> (e \in Range(rt_got) \/ e \in rt_lost)

\* The cloud providers in the preference order of the router, and those
\* whose API key is configured.
PreferenceOrder == <<"Google", "OpenAI", "Anthropic">>
HasKey(cfg, kind) ==
    CASE kind = "Google" -> cfg.google_key
      [] kind = "OpenAI" -> cfg.openai_key
      [] kind = "Anthropic" -> cfg.anthropic_key
Configured(cfg) == {i \in DOMAIN PreferenceOrder : HasKey(cfg, PreferenceOrder[i])}
FirstConfigured(cfg) ==
    PreferenceOrder[CHOOSE i \in Configured(cfg) : \A j \in Configured(cfg) : i <= j]

\* select_provider has been called.
Selected == rsel.op = "select"

\* The Smart rule sends the text of the latest call to the local backend.
SmartLocal == Rank(FromText(rsel.text)) < Rank(rcfg.cloud_threshold) /\ rsel.live

C18_NoProviderWithoutKey ==
    (Selected /\ rsel.provider.kind # "Local") => HasKey(rcfg, rsel.provider.kind)

\* The latest analyze_flash call has returned after its Local call failed.
LocalCallFailed ==
    /\ rpc = "returned"
    /\ rcalls # <<>>
    /\ rcalls[1].client = "OllamaFlash"
    /\ rfirst = "err"

\* C19: under LocalWithFallback, select_provider returns Local when local is
\* live and, when it is not and a cloud key is configured, the best cloud
\* provider; when the Local call of analyze_flash has failed and a cloud key
\* is configured, analyze_flash has made exactly one further call, to the
\* best cloud provider with one of the cloud clients, and a result it
\* returned names that provider.
C19_FallbackOnceToBestCloud ==
    rcfg.strategy = "LocalWithFallback" =>
        /\ Selected =>
            IF rsel.live THEN rsel.provider.kind = "Local"
            ELSE Configured(rcfg) # {} => rsel.provider.kind = FirstConfigured(rcfg)
        /\ (LocalCallFailed /\ Configured(rcfg) # {}) =>
            /\ Len(rcalls) = 2
            /\ rcalls[2].for = FirstConfigured(rcfg)
            /\ rcalls[2].client \in {"GeminiFlash", "GPT4oMini"}
            /\ rret.op = "ok" => rret.provider.kind = FirstConfigured(rcfg)

\* C20: under AlwaysLocal, select_provider returns Local, every call
\* analyze_flash makes goes to the local backend, and when the local call
\* has failed the error is returned after that single call.
C20_AlwaysLocalNeverCloud ==
    rcfg.strategy = "AlwaysLocal" =>
        /\ Selected => rsel.provider.kind = "Local"
        /\ \A i \in DOMAIN rcalls : rcalls[i].client = "OllamaFlash"
        /\ LocalCallFailed => (Len(rcalls) = 1 /\ rret.op = "err")

\* AlwaysLocal with every cloud key configured and local not live: the
\* local call of analyze_flash failed and analyze_flash has returned.
C20_Witness ==
    /\ rcfg.strategy = "AlwaysLocal"
    /\ rcfg.google_key /\ rcfg.openai_key /\ rcfg.anthropic_key
    /\ LocalCallFailed
    /\ ~rsel.live

\* C21: every FlashReady event on the bus carries at most 5 bullets, and its
\* bullets are in ascending order of priority, whatever list the Flash backend
\* answered with.
SortedByPriority(bullets) ==
    \A i, j \in DOMAIN bullets : i < j => bullets[i].priority <= bullets[j].priority
C21_FlashReadyCappedAndSorted ==
    \A i \in DOMAIN fa_events :
        fa_events[i].type = "FlashReady" =>
            /\ Len(fa_events[i].flash.bullets) <= 5
            /\ SortedByPriority(fa_events[i].flash.bullets)

\* C22: when the text of a Deep stream contains the "Question to Ask Them"
\* header followed by a complete line, a QuestionReady event carrying that
\* line is emitted, and question_to_ask is set, before the stream's terminal
\* event.
QuestionLine(text) ==
    \E i \in 1..(Len(text) - 1) : text[i] = "header" /\ text[i + 1] = "line"
TerminalAt(i) == ds_events[i].type \in {"DeepComplete", "Error"}
C22_QuestionReadyBeforeTerminal ==
    \A i \in DOMAIN ds_events :
        (TerminalAt(i) /\ QuestionLine(ds_text)) =>
            /\ \E j \in 1..(i - 1) :
                ds_events[j] = [type |-> "QuestionReady", text |-> "line"]
            /\ ds_state.question_to_ask = "line"

\* C23: from_text(T) is the bucket of score(T) = 2 x (complex keywords
\* contained in lowercase T) - (simple keywords contained in lowercase T)
\* + (2 if T has more than 30 words, else 1 if more than 15) + (1 if T has
\* more than one '?'), with buckets <= 0 Simple, 1..3 Moderate, 4..6 Complex,
\* >= 7 Critical; and the bucket never decreases when the score grows.
ScoreOf(text) ==
    2 * Cardinality({k \in ComplexKeywords : k \in Range(text.words)})
    - Cardinality({k \in SimpleKeywords : k \in Range(text.words)})
    + (IF WordCount(text) > 30 THEN 2 ELSE IF WordCount(text) > 15 THEN 1 ELSE 0)
    + (IF text.qmarks > 1 THEN 1 ELSE 0)
BucketOf(score) ==
    CASE score <= 0 -> "Simple"
      [] score \in 1..3 -> "Moderate"
      [] score \in 4..6 -> "Complex"
      [] score >= 7 -> "Critical"
C23_FromTextIsBucketOfScore ==
    cx_ret # "none" =>
        /\ cx_ret = BucketOf(ScoreOf(cx_text))
        /\ \A other \in Utterances :
            ScoreOf(other) <= ScoreOf(cx_text) =>
                Rank(FromText(Measure(other))) <= Rank(cx_ret)
C23_Witness ==
    /\ cx_ret = "Critical"
    /\ cx_text.upper
    /\ ScoreOf(cx_text) = 7

\* C24: f32_to_pcm_bytes emits two little-endian bytes per sample, encoding
\* an i16 in [-32767, 32767] that is the sample clamped to [-1, 1] times
\* 32767; for a sample s in [-1, 1] the decoded value divided by 32767 is
\* within 1/32768 of s.
Decoded(i) == FromLeBytes(<<pcm_out[2 * i - 1], pcm_out[2 * i]>>)
Abs(x) == IF x < 0 THEN -x ELSE x
\* |d - m x 32767 x 2^e| as limbs, for a decoded value d of the sign of s
Distance(s, d) ==
    LET p == Times32767(s.m)
        dh == p.hi - Abs(d) * (2 ^ (-s.e - 12))
    IN  IF dh >= 0 THEN [hi |-> dh, lo |-> p.lo]
        ELSE IF p.lo = 0 THEN [hi |-> -dh, lo |-> 0]
        ELSE [hi |-> -dh - 1, lo |-> Limb - p.lo]
\* 2^(-e) x (1 - 1/32768) as limbs: one 32768th less than one unit of the i16
Tolerance(s) ==
    IF -s.e >= 27 THEN [hi |-> 2 ^ (-s.e - 12) - 2 ^ (-s.e - 27), lo |-> 0]
    ELSE [hi |-> 2 ^ (-s.e - 12) - 1, lo |-> Limb - 2 ^ (-s.e - 15)]
LimbsLeq(x, y) == x.hi < y.hi \/ (x.hi = y.hi /\ x.lo <= y.lo)
SameSign(s, d) == d = 0 \/ (d < 0) = s.neg
C24_PcmEncodingWithin32768th ==
    pcm_done =>
        /\ Len(pcm_out) = 2 * Len(pcm_in)
        /\ \A b \in Range(pcm_out) : b \in 0..255
        /\ \A i \in DOMAIN pcm_in :
            LET s == pcm_in[i] IN
            /\ Decoded(i) \in -32767..32767
            /\ SameSign(s, Decoded(i))
            /\ AboveOne(s) => Abs(Decoded(i)) = 32767
            /\ ~AboveOne(s) => LimbsLeq(Distance(s, Decoded(i)), Tolerance(s))

\* C24, as it holds: the same encoding, and for a sample s in [-1, 1] the
\* decoded value divided by 32767 differs from s by less than 1/32767 (the
\* product is truncated toward zero, so up to one whole step is lost).
LessThanOneStep(s, d) == Distance(s, d).hi < 2 ^ (-s.e - 12)
C24_PcmEncoding ==
    pcm_done =>
        /\ Len(pcm_out) = 2 * Len(pcm_in)
        /\ \A b \in Range(pcm_out) : b \in 0..255
        /\ \A i \in DOMAIN pcm_in :
            LET s == pcm_in[i] IN
            /\ Decoded(i) \in -32767..32767
            /\ SameSign(s, Decoded(i))
            /\ AboveOne(s) => Abs(Decoded(i)) = 32767
            /\ ~AboveOne(s) => LessThanOneStep(s, Decoded(i))
C24_Witness ==
    /\ pcm_done
    /\ \E i, j \in DOMAIN pcm_in :
        /\ ~AboveOne(pcm_in[i])
        /\ ~LimbsLeq(Distance(pcm_in[i], Decoded(i)), Tolerance(pcm_in[i]))
        /\ AboveOne(pcm_in[j])
        /\ Decoded(j) = -32767

\* C25: after rotate_refresh_token(old, device) succeeds,
\* verify_refresh_token(old, device) fails with InvalidToken and only the
\* newly returned token verifies; after any sequence of login, refresh and
\* logout at most one refresh token is valid per (user, device).
Verifies(token, d) == VerifyRefreshToken(tk_rows, tk_version, token, d)
ValidFor(u, d) ==
    {token \in Presented : Verifies(token, d).ok /\ Verifies(token, d).user = u}
JustRotated(p) == tk_last = p /\ tk_req[p].ret.ok
Concurrent(p, q) == q \in tk_req[p].with \/ p \in tk_req[q].with
SameToken(p, q) ==
    tk_req[p].token = tk_req[q].token /\ tk_req[p].device = tk_req[q].device
C30_ConcurrentRefreshRotatesOnce ==
    \A p, q \in RefreshRequests :
        (/\ p # q
         /\ tk_req[p].pc = "done" /\ tk_req[q].pc = "done"
         /\ Concurrent(p, q) /\ SameToken(p, q)
         /\ tk_req[p].ret.ok) =>
            tk_req[q].ret = Rejected("InvalidToken")

\* C26: after start() has returned Ok, the audio capture and the forwarding
\* task of the session stay active until stop() is called or the audio
\* source fails; they do not end because start() has returned.
C26_ForwarderLivesUntilStop ==
    \A s \in Sessions :
        audio_fwd[s] = "done" => (StoppedBy(s) \/ s \in audio_err)

\* C27: deep_streaming is true only while a Deep request is in flight; once
\* run_deep_analysis has returned, by a terminal chunk, by failing to open
\* the stream or by the channel closing, deep_streaming is false.
C27_DeepStreamingOnlyInFlight ==
    cstate.deep_streaming => DOMAIN deep # {}

\* C28: on the bus of one pipeline Started and Stopped events alternate,
\* beginning with Started, whatever start() and stop() calls are made:
\* start() on a running pipeline emits nothing, stop() on an idle pipeline
\* emits no Stopped.
Lifecycle == {i \in DOMAIN events : events[i].type \in {"Started", "Stopped"}}
C28_StartedStoppedAlternate ==
    \A i \in Lifecycle :
        LET earlier == Cardinality({j \in Lifecycle : j < i}) IN
        events[i].type = IF earlier % 2 = 0 THEN "Started" ELSE "Stopped"

\* C29: stop() leaves the context store unchanged: turns, key facts,
\* objections and mode prompt are as before after stop() and after a start()
\* that follows it; stop() clears only the transcript buffer; and
\* ConversationContext::clear() leaves the mode prompt unchanged.
C29_StopKeepsContext ==
    /\ ctx_call.op \in LifecycleOps => (ctx = ctx_before /\ ctx = lc_kept)
    /\ ctx_call.op = "stop" => BufferIsEmpty(lc_buffer)
    /\ ctx_call.op = "clear" => ctx.mode_context = ctx_before.mode_context
C29_Witness ==
    /\ ctx_call.op = "start"
    /\ lc_running
    /\ lc_stops > 0
    /\ lc_starts = 2
    /\ ctx.turns # <<>>
    /\ ctx.key_facts # <<>>
    /\ ctx.objections_raised # <<>>
    /\ ctx.mode_context = "sales"
====
